---- MODULE Spec2Model ----
(***************************************************************************)
(* Verification model of the RbLab user devices:                           *)
(*   - PCOCamera (src/PCOCamera/blacs_workers.py): buffer ring, grab,      *)
(*     grab_multiple with its abort flag, software ROI, teardown;          *)
(*   - _ElliptecInterface / _KDC101Interface move caches ("smart           *)
(*     programming") and the Elliptec two's complement position codec.     *)
(*                                                                         *)
(* The vendor SDK (NicePCO.Camera) is the environment.  Its device state   *)
(* is the record `camera`; every SDK call is an operator on that record    *)
(* that also appends itself to camera.log, the list of SDK calls of the    *)
(* handler step that is running.  SDK calls succeed except where the       *)
(* source handles their failure: WaitforBuffer (timeout or another error   *)
(* code) and FreeBuffer (index not allocated).                             *)
(***************************************************************************)
EXTENDS Integers, Sequences, FiniteSets, TLC

VARIABLES
    \* ---- PCOCamera ----
    camera,                 \* device state behind self.camera
    buffer_info_list,       \* self.buffer_info_list (slot indices)
    _abort_acquisition,     \* self._abort_acquisition
    _running_continuously,  \* self._running_continuously
    _using_hardware_trigger,\* self._using_hardware_trigger
    ROI,                    \* self.ROI
    fliplr,                 \* self.fliplr
    flipud,                 \* self.flipud
    pc,                     \* position of the acquisition thread
    gm,                     \* locals of the running grab_multiple call
    ret,                    \* outcome of the most recent handler call
    bufferCount,            \* bufferCount of the last configure_acquisition
    \* ---- _ElliptecInterface / _KDC101Interface ----
    last_set_positions_in_counts, \* Elliptec cache, per bus address
    last_set_position,      \* KDC101 cache
    bus,                    \* most recent interface call and what it wrote
    hist,                   \* per axis: the most recent call
    \* ---- Elliptec position codec ----
    codec,                  \* one encode / decode round trip
    \* ---- connection, worker start-up, synthesizer ----
    conn,                   \* a running connection-open routine
    ell,                    \* ElliptecWorker.init
    kdc,                    \* KDC101Worker.init
    synth,                  \* _Agilent83650B: what was written to the port
    limits                  \* Agilent83650BOutput: limits given and stored

pcoVars == <<camera, buffer_info_list, _abort_acquisition,
             _running_continuously, _using_hardware_trigger,
             ROI, fliplr, flipud, pc, gm, ret, bufferCount>>
moveVars == <<last_set_positions_in_counts, last_set_position, bus, hist>>
codecVars == <<codec>>
workerVars == <<conn, ell, kdc, synth, limits>>
vars == <<pcoVars, moveVars, codecVars, workerVars>>

(***************************************************************************)
(* Bounds of the model.                                                    *)
(***************************************************************************)
MaxBufferCount == 2     \* largest bufferCount a caller passes
MaxFills == 4           \* images the hardware delivers in one behaviour
MaxHorzRes == 2         \* camera_description.wMaxHorzResStdDESC
MaxVertRes == 2         \* camera_description.wMaxVertResStdDESC

\* PCOCamera._PCO_MAX_BUFFER_COUNT
PCO_MAX_BUFFER_COUNT == 16

Slots == 0 .. (PCO_MAX_BUFFER_COUNT - 1)
NoSlot == -1
NoImage == 0

Min(S) == CHOOSE x \in S : \A y \in S : x <= y

(***************************************************************************)
(* The SDK calls, as the source uses them.                                 *)
(***************************************************************************)
Logged(c, f, a) == [c EXCEPT !.log = Append(@, [f |-> f, a |-> a])]

GetRecordingState(c) == Logged(c, "GetRecordingState", 0)

\* Images are numbered from 1 within a recording.
SetRecordingState(c, v) ==
    [Logged(c, "SetRecordingState", v)
        EXCEPT !.recording = v,
               !.n_filled = IF v = 1 /\ c.recording = 0 THEN 0 ELSE @]

\* PCO_CancelImages: removes all remaining buffers from the driver's queue.
CancelImages(c) ==
    [Logged(c, "CancelImages", 0) EXCEPT !.queue = <<>>, !.pending = <<>>]

\* PCO_FreeBuffer: frees slot n; raises PCOError when n is not allocated.
FreeBufferRaises(c, n) == n \notin c.allocated
FreeBuffer(c, n) ==
    IF FreeBufferRaises(c, n)
    THEN [Logged(c, "FreeBuffer", n) EXCEPT !.errs = @ \cup {n}]
    ELSE [Logged(c, "FreeBuffer", n) EXCEPT !.allocated = @ \ {n},
                                            !.filled = @ \ {n},
                                            !.img[n] = NoImage]

\* The image size follows the settings in force at the last ArmCamera().
SizesFor(binning) == <<MaxHorzRes \div binning[1], MaxVertRes \div binning[2]>>
ArmCamera(c) == [Logged(c, "ArmCamera", 0) EXCEPT !.sizes = SizesFor(c.binning)]

SetBinning(c, b) == [Logged(c, "SetBinning", 0) EXCEPT !.binning = b]
SetStorageMode(c, m) == Logged(c, "SetStorageMode", m)
SetRecorderSubmode(c, m) == Logged(c, "SetRecorderSubmode", m)
GetSizes(c) == Logged(c, "GetSizes", 0)
ResetSettingsToDefault(c) ==
    [Logged(c, "ResetSettingsToDefault", 0) EXCEPT !.binning = <<1, 1>>]
SetBitAlignment(c, a) == Logged(c, "SetBitAlignment", a)

\* PCO_AllocateBuffer with index -1: the SDK picks the lowest free index.
NewBufferIndex(c) == Min(Slots \ c.allocated)
AllocateBuffer(c) ==
    [Logged(c, "AllocateBuffer", NewBufferIndex(c))
        EXCEPT !.allocated = @ \cup {NewBufferIndex(c)},
               !.filled = @ \ {NewBufferIndex(c)}]

\* PCO_AddBufferEx: submits the slot at the back of the driver's queue and
\* resets its event.  pending keeps the slots submitted whose image has not
\* been read out yet, in the order of their submission.
AddBufferEx(c, n) ==
    [Logged(c, "AddBufferEx", n) EXCEPT !.queue = Append(@, n),
                                        !.pending = Append(@, n),
                                        !.filled = @ \ {n}]

\* PCO_WaitforBuffer on slot n: its outcomes.  "ok" needs the slot's event
\* to be set; with the event unset the wait ends in the timeout code
\* 0xA00A3005; any other error code ("fatal") may come at any time.
WaitOutcomes(c, n) ==
    (IF n \in c.filled THEN {"ok"} ELSE {"timeout"}) \cup {"fatal"}
WaitforBuffer(c, n) == Logged(c, "WaitforBuffer", n)

(***************************************************************************)
(* PCOCamera methods as operators on the device state.                     *)
(***************************************************************************)
\* stop_acquisition: only stop recording if currently recording.
stop_acquisition(c) ==
    IF GetRecordingState(c).recording # 0
    THEN SetRecordingState(GetRecordingState(c), 0)
    ELSE GetRecordingState(c)

\* Faulty variant of FreeFrom: the loop ends at the first PCOError.
RECURSIVE FreeFrom_StopAtError(_, _)
FreeFrom_StopAtError(c, n) ==
    IF n >= PCO_MAX_BUFFER_COUNT \/ FreeBufferRaises(c, n)
    THEN c
    ELSE FreeFrom_StopAtError(FreeBuffer(c, n), n + 1)

RECURSIVE FreeFrom(_, _)
FreeFrom(c, n) ==
    IF n >= PCO_MAX_BUFFER_COUNT THEN c ELSE FreeFrom(FreeBuffer(c, n), n + 1)

\* clean_up_buffers, the device side: CancelImages, then FreeBuffer(n) for
\* n in range(16), each PCOError swallowed.
clean_up_buffers(c) == FreeFrom(CancelImages(c), 0)

\* reinitialize_camera
reinitialize_camera(c) ==
    SetBitAlignment(
      ResetSettingsToDefault(clean_up_buffers(stop_acquisition(c))), 1)

\* queue_buffer, the device side.
queue_buffer(c, n) == AddBufferEx(GetSizes(c), n)

\* One pass of configure_acquisition's allocation loop.
AllocateAndQueue(c) == queue_buffer(AllocateBuffer(c), NewBufferIndex(c))

RECURSIVE AllocateLoop(_, _)
AllocateLoop(c, k) ==
    IF k = 0 THEN c ELSE AllocateLoop(AllocateAndQueue(c), k - 1)

\* Faulty variant of ConfigurePrologue: the old slots are not torn down.
ConfigurePrologue_NoTeardown(c) ==
    GetSizes(
      SetRecordingState(
        ArmCamera(
          SetRecorderSubmode(
            SetStorageMode(stop_acquisition(c), 1), 1)), 1))

\* configure_acquisition up to the allocation loop.
ConfigurePrologue(c) ==
    GetSizes(
      SetRecordingState(
        ArmCamera(
          SetRecorderSubmode(
            SetStorageMode(
              clean_up_buffers(stop_acquisition(c)), 1), 1)), 1))

configure_acquisition(c, n) == AllocateLoop(ConfigurePrologue(c), n)

\* The slots AllocateLoop hands to queue_buffer, in order.
RECURSIVE QueuedBy(_, _)
QueuedBy(c, k) ==
    IF k = 0 THEN <<>>
    ELSE <<NewBufferIndex(c)>> \o QueuedBy(AllocateAndQueue(c), k - 1)

(***************************************************************************)
(* Software ROI.                                                           *)
(***************************************************************************)
RoiKeys == {"offsetX", "offsetY", "width", "height"}

FullFrame(sizes) ==
    [offsetX |-> 0, offsetY |-> 0, width |-> sizes[1], height |-> sizes[2]]

\* _check_ROI_dict_value_is_nonnegative: values are modelled as integers,
\* so only the sign is left of the test.
ValueIsNonnegative(roi, key) == roi[key] >= 0

\* set_ROI raises ValueError exactly when this holds (sizes: GetSizes after
\* the ArmCamera call of set_ROI).
RoiRejected(roi, sizes) ==
    \/ ~(RoiKeys \subseteq DOMAIN roi)
    \/ \E key \in RoiKeys : ~ValueIsNonnegative(roi, key)
    \/ roi.offsetX + roi.width > sizes[1]
    \/ roi.offsetY + roi.height > sizes[2]

\* The sample the camera writes at column x, row y (from 0) of its img-th
\* image; the numbers tell the images and the places apart.
Pixel(img, x, y) == img * 100 + y * 10 + x

\* np.frombuffer(...).reshape((image_height_pixels, image_width_pixels)):
\* the rows of a slot that holds the img-th image.
Raw(img, sizes) ==
    [r \in 1 .. sizes[2] |-> [k \in 1 .. sizes[1] |-> Pixel(img, k - 1, r - 1)]]

\* Python's s[lo:hi] for 0 <= lo <= hi: the end is cut at len(s).
Slice(s, lo, hi) == SubSeq(s, lo + 1, Min({hi, Len(s)}))
\* Faulty variant of Reverse: the index is one too small, held at the start.
Reverse_OffByOne(s) ==
    [i \in 1 .. Len(s) |-> s[IF Len(s) - i < 1 THEN 1 ELSE Len(s) - i]]

Reverse(s) == [i \in 1 .. Len(s) |-> s[Len(s) + 1 - i]]

\* array[y_index_min:y_index_max, x_index_min:x_index_max]
Crop(array, roi) ==
    LET rows == Slice(array, roi.offsetY, roi.offsetY + roi.height)
    IN  [r \in 1 .. Len(rows) |->
            Slice(rows[r], roi.offsetX, roi.offsetX + roi.width)]
np_fliplr(array) == [r \in 1 .. Len(array) |-> Reverse(array[r])]
np_flipud(array) == Reverse(array)

\* _get_image_from_buffer from "Implement ROI" to the flips
Processed(raw, roi, lr, ud) ==
    LET cropped == Crop(raw, roi)
        flipped_lr == IF lr THEN np_fliplr(cropped) ELSE cropped
    IN  IF ud THEN np_flipud(flipped_lr) ELSE flipped_lr

\* The array before array.copy(): a view of the memory of slot n (base).
\* It keeps the image, the ROI, the image size and the flips it was made
\* with, and what it shows at that moment.
View(c, n, roi) ==
    [slot |-> n, img |-> c.img[n], roi |-> roi, sizes |-> c.sizes,
     fliplr |-> fliplr, flipud |-> flipud, base |-> n,
     array |-> Processed(Raw(c.img[n], c.sizes), roi, fliplr, flipud)]

\* Faulty variant of copy: the view itself is returned.
copy_View(a) == a

\* array.copy(): an array with memory of its own
copy(a) == [a EXCEPT !.base = NoSlot]

\* _get_image_from_buffer: the frame read out of slot n.
Frame(c, n, roi) == copy(View(c, n, roi))
NoFrame == [slot |-> NoSlot, img |-> NoImage, roi |-> FullFrame(<<0, 0>>),
            sizes |-> <<0, 0>>, fliplr |-> FALSE, flipud |-> FALSE,
            base |-> NoSlot, array |-> <<>>]

\* What the holder of an array reads from it while the device is in state c.
Contents(a, c) ==
    IF a.base = NoSlot THEN a.array
    ELSE Processed(Raw(c.img[a.base], a.sizes), a.roi, a.fliplr, a.flipud)

(***************************************************************************)
(* Python integers.  A position in encoder counts is an unbounded Python   *)
(* int; it is kept here as two limbs, hi * 2^16 + lo with 0 <= lo < 2^16,  *)
(* so that 2^31 and 2^32 are exact.                                        *)
(***************************************************************************)
Limb == 2^16
Norm(hi, lo) == [hi |-> hi + (lo \div Limb), lo |-> lo % Limb]
PyInt(n) == Norm(0, n)
Add(x, y) == Norm(x.hi + y.hi, x.lo + y.lo)
Neg(x) == Norm(-x.hi, -x.lo)
Sub(x, y) == Add(x, Neg(y))
Less(x, y) == x.hi < y.hi \/ (x.hi = y.hi /\ x.lo < y.lo)
\* 2**n
TwoToThe(n) == IF n >= 16 THEN Norm(2^(n - 16), 0) ELSE Norm(0, 2^n)

\* Strings are sequences of characters.
HexChars == <<"0", "1", "2", "3", "4", "5", "6", "7",
              "8", "9", "A", "B", "C", "D", "E", "F">>

RECURSIVE HexOf(_)
HexOf(n) ==
    IF n < 16 THEN <<HexChars[n + 1]>>
    ELSE HexOf(n \div 16) \o <<HexChars[(n % 16) + 1]>>

RECURSIVE PadLeft(_, _)
PadLeft(s, width) == IF Len(s) >= width THEN s ELSE PadLeft(<<"0">> \o s, width)

\* format(x, 'X'): upper-case hexadecimal, no prefix, '-' before the digits
\* of a negative number.
FormatX(x) ==
    IF x.hi < 0 THEN <<"-">> \o
         (IF Neg(x).hi > 0 THEN HexOf(Neg(x).hi) \o PadLeft(HexOf(Neg(x).lo), 4)
                           ELSE HexOf(Neg(x).lo))
    ELSE IF x.hi > 0 THEN HexOf(x.hi) \o PadLeft(HexOf(x.lo), 4)
    ELSE HexOf(x.lo)

DigitOf(ch) == CHOOSE d \in 0 .. 15 : HexChars[d + 1] = ch

\* int(s, 16) for a string of hexadecimal digits.
RECURSIVE ParseHex(_)
ParseHex(s) ==
    IF s = <<>> THEN PyInt(0)
    ELSE LET front == ParseHex(SubSeq(s, 1, Len(s) - 1))
         IN  Norm(front.hi * 16, front.lo * 16 + DigitOf(s[Len(s)]))

\* _ElliptecInterface._position_counts_to_str, n_bits=32.  round() and
\* int() leave a Python int as it is.
_position_counts_to_str(position_in_counts) ==
    LET wrap_around_value == TwoToThe(32 - 1)
        amount_exceeded == Sub(position_in_counts, Neg(wrap_around_value))
        wrapped == IF Less(position_in_counts, PyInt(0))
                   THEN Add(wrap_around_value, amount_exceeded)
                   ELSE position_in_counts
    IN  PadLeft(FormatX(wrapped), 8)

\* Faulty variant of _position_str_to_counts: wraps only above 2^(n_bits-1).
_position_str_to_counts_Exclusive(position_as_str) ==
    LET n_bits == 4 * Len(position_as_str)
        position_in_counts == ParseHex(position_as_str)
        wrap_around_value == TwoToThe(n_bits - 1)
        amount_exceeded == Sub(position_in_counts, wrap_around_value)
    IN  IF Less(wrap_around_value, position_in_counts)
        THEN Add(Neg(wrap_around_value), amount_exceeded)
        ELSE position_in_counts

\* _ElliptecInterface._position_str_to_counts, n_bits=None.
_position_str_to_counts(position_as_str) ==
    LET n_bits == 4 * Len(position_as_str)
        position_in_counts == ParseHex(position_as_str)
        wrap_around_value == TwoToThe(n_bits - 1)
        amount_exceeded == Sub(position_in_counts, wrap_around_value)
    IN  IF ~Less(position_in_counts, wrap_around_value)
        THEN Add(Neg(wrap_around_value), amount_exceeded)
        ELSE position_in_counts

(***************************************************************************)
(* _ElliptecInterface and _KDC101Interface: the move caches.  None is the  *)
(* empty tuple and a cached position p the tuple <<p>>.                    *)
(***************************************************************************)
MaxPosition == 1        \* positions commanded are 0 .. MaxPosition

None == <<>>
Some(p) == <<p>>

\* bus addresses are "between 0 and 15 inclusively": the two ends
Addresses == {0, 15}
Positions == 0 .. MaxPosition
\* relative moves are signed
RelativeMoves == {-1, 1}

\* float(position): ints and numpy floats of one value become equal floats
float(position) == [type |-> "float", v |-> position.v]
KDCInputs == [type : {"int", "numpy.float64"}, v : Positions]

\* What is remembered of an interface call: the method, the position it was
\* given, whether it raised, and the number of commands it sent.
Call(op, pos, raised, writes) ==
    [op |-> op, pos |-> pos, raised |-> raised, writes |-> writes]
NoCallYet == Call("none", None, FALSE, 0)
\* bus: the device and address called last, the call, its fresh argument,
\* the commands it sent, and the cache entry and the previous call of that
\* axis as the call found them.
IdleBus == [dev |-> "none", address |-> 0, call |-> NoCallYet, fresh |-> TRUE,
            sent |-> <<>>, cached |-> None, prev |-> NoCallYet]

(***************************************************************************)
(* Initial state: PCOCamera.__init__ has run (reinitialize_camera, default *)
(* full-frame ROI, no flips).                                              *)
(***************************************************************************)
\* ret: the handler called last, the exception it raised ("none": it
\* returned), which check raised it, the frame it returned, and the ROI it
\* was called with (set_ROI).
Ret(op, raised, frame) ==
    [op |-> op, raised |-> raised, text |-> "", frame |-> frame,
     arg |-> FullFrame(<<0, 0>>)]
NoCall == Ret("none", "none", NoFrame)
IdleGm == [n_images |-> 0, last_buffer_info |-> NoSlot, k |-> 0,
           images |-> <<>>, abort_during |-> FALSE, observed_abort |-> FALSE,
           last_wait |-> "none", timed_out |-> FALSE]

InitCamera ==
    [recording |-> 0, allocated |-> {}, queue |-> <<>>, filled |-> {},
     img |-> [n \in Slots |-> NoImage], n_filled |-> 0,
     binning |-> <<1, 1>>, sizes |-> SizesFor(<<1, 1>>), log |-> <<>>,
     errs |-> {}, pending |-> <<>>]

InitPCO ==
    /\ camera = InitCamera
    /\ buffer_info_list = <<>>
    /\ _abort_acquisition = FALSE
    /\ _running_continuously = FALSE
    /\ _using_hardware_trigger = TRUE
    /\ ROI = FullFrame(SizesFor(<<1, 1>>))
    /\ fliplr = FALSE
    /\ flipud = FALSE
    /\ pc = "idle"
    /\ gm = IdleGm
    /\ ret = NoCall
    /\ bufferCount = 0

\* _ElliptecInterface.__init__ and _KDC101Interface.__init__: empty caches.
InitMove ==
    /\ last_set_positions_in_counts = [a \in Addresses |-> None]
    /\ last_set_position = None
    /\ bus = IdleBus
    /\ hist = [elliptec |-> [a \in Addresses |-> NoCallYet],
               kdc101 |-> NoCallYet]

\* codec: the integer given, its string, and the integer read back.
IdleCodec == [stage |-> "idle", x |-> PyInt(0), str |-> <<>>, back |-> PyInt(0)]
InitCodec == codec = IdleCodec

\* Nothing has been opened or started yet.
IdleConn == [routine |-> "none"]
IdleEll == [pc |-> "none"]
IdleKdc == [pc |-> "none"]
IdleSynth == [pc |-> "none"]
IdleLimits == [kind |-> "none"]
InitWorkers ==
    /\ conn = IdleConn
    /\ ell = IdleEll
    /\ kdc = IdleKdc
    /\ synth = IdleSynth
    /\ limits = IdleLimits

Fresh(c) == [c EXCEPT !.log = <<>>, !.errs = {}]
attrVars == <<ROI, fliplr, flipud>>
otherVars == <<moveVars, codecVars, workerVars>>

(***************************************************************************)
(* The hardware: with recording on, the oldest submitted slot is filled    *)
(* with the next image and its event is set.                               *)
(***************************************************************************)
HwFillOp(c) ==
    [c EXCEPT !.queue = Tail(@),
              !.filled = @ \cup {Head(c.queue)},
              !.img[Head(c.queue)] = c.n_filled + 1,
              !.n_filled = @ + 1]

CanFill(c) == c.recording = 1 /\ c.queue # <<>> /\ c.n_filled < MaxFills

HwFill ==
    /\ CanFill(camera)
    /\ camera' = HwFillOp(camera)
    /\ UNCHANGED <<buffer_info_list, _abort_acquisition, _running_continuously,
                   _using_hardware_trigger, attrVars, pc, gm, ret, bufferCount,
                   otherVars>>

(***************************************************************************)
(* Handlers called while no grab_multiple is running.                      *)
(***************************************************************************)
\* configure_acquisition(continuous, bufferCount, snap)
ConfigureAcquisition(continuous, n, snap) ==
    /\ pc = "idle"
    /\ _running_continuously' = continuous
    /\ _using_hardware_trigger' = ~(continuous \/ snap)
    /\ LET c0 == ConfigurePrologue(Fresh(camera))
       IN  /\ camera' = AllocateLoop(c0, n)
           /\ buffer_info_list' = QueuedBy(c0, n)
    /\ ret' = [NoCall EXCEPT !.op = "configure_acquisition"]
    /\ bufferCount' = n
    /\ gm' = IdleGm
    /\ UNCHANGED <<_abort_acquisition, attrVars, pc, otherVars>>

\* stop_acquisition()
StopAcquisition ==
    /\ pc = "idle"
    /\ camera' = stop_acquisition(Fresh(camera))
    /\ ret' = [NoCall EXCEPT !.op = "stop_acquisition"]
    /\ gm' = IdleGm
    /\ UNCHANGED <<buffer_info_list, _abort_acquisition, _running_continuously,
                   _using_hardware_trigger, attrVars, pc, bufferCount,
                   otherVars>>

\* clean_up_buffers()
CleanUpBuffers ==
    /\ pc = "idle"
    /\ camera' = clean_up_buffers(Fresh(camera))
    /\ buffer_info_list' = <<>>
    /\ ret' = [NoCall EXCEPT !.op = "clean_up_buffers"]
    /\ gm' = IdleGm
    /\ UNCHANGED <<_abort_acquisition, _running_continuously,
                   _using_hardware_trigger, attrVars, pc, bufferCount,
                   otherVars>>

\* abort_acquisition(): called from another thread at any time.
AbortAcquisition ==
    /\ _abort_acquisition' = TRUE
    /\ IF pc = "idle"
       THEN gm' = IdleGm /\ ret' = [NoCall EXCEPT !.op = "abort_acquisition"]
       ELSE gm' = [gm EXCEPT !.abort_during = TRUE] /\ UNCHANGED ret
    /\ UNCHANGED <<camera, buffer_info_list, _running_continuously,
                   _using_hardware_trigger, attrVars, pc, bufferCount,
                   otherVars>>

(***************************************************************************)
(* grab(): wait on the head of buffer_info_list, pop it, read the frame,   *)
(* and put the slot back at the end of the queue when running continuously.*)
(* Its result for wait outcome o: the device state, the list, the frame    *)
(* and what it raised.                                                     *)
(***************************************************************************)
\* Faulty variant of Requeued: a slot read out once stays in the list.
Requeued_KeepsHead(list, n, continuous) ==
    IF continuous THEN Append(Tail(list), n) ELSE list

\* Faulty variant of Requeued: the slot goes back to the front of the list.
Requeued_Front(list, n, continuous) ==
    IF continuous THEN <<n>> \o Tail(list) ELSE Tail(list)

\* self.buffer_info_list after the slot that was read has been handled.
Requeued(list, n, continuous) ==
    IF continuous THEN Append(Tail(list), n) ELSE Tail(list)

\* _get_image_from_buffer has read the image of slot n.
ReadOut(c, n) ==
    [GetSizes(GetSizes(c)) EXCEPT !.pending = SelectSeq(@, LAMBDA m : m # n)]

\* The device after the frame of slot n has been read out.
AfterReadout(c, n, continuous) ==
    IF continuous THEN queue_buffer(ReadOut(c, n), n) ELSE ReadOut(c, n)

\* The slot grab() waits on.
GrabTarget(list) == list[1]

\* Faulty variant of grab: the head is popped before the wait.
grab_PopsFirst(c, list, continuous, roi, o) ==
    IF list = <<>>
    THEN [camera |-> c, list |-> list, frame |-> NoFrame, raised |-> "IndexError"]
    ELSE IF o # "ok"
    THEN [camera |-> WaitforBuffer(c, GrabTarget(list)), list |-> Tail(list),
          frame |-> NoFrame, raised |-> o]
    ELSE [camera |-> AfterReadout(WaitforBuffer(c, GrabTarget(list)),
                                  GrabTarget(list), continuous),
          list |-> Requeued(list, GrabTarget(list), continuous),
          frame |-> Frame(c, GrabTarget(list), roi),
          raised |-> "none"]

grab(c, list, continuous, roi, o) ==
    IF list = <<>>
    THEN [camera |-> c, list |-> list, frame |-> NoFrame, raised |-> "IndexError"]
    ELSE IF o # "ok"
    THEN [camera |-> WaitforBuffer(c, GrabTarget(list)), list |-> list,
          frame |-> NoFrame, raised |-> o]
    ELSE [camera |-> AfterReadout(WaitforBuffer(c, GrabTarget(list)),
                                  GrabTarget(list), continuous),
          list |-> Requeued(list, GrabTarget(list), continuous),
          frame |-> Frame(c, GrabTarget(list), roi),
          raised |-> "none"]

GrabOutcomes(c, list) ==
    IF list = <<>> THEN {"IndexError"} ELSE WaitOutcomes(c, GrabTarget(list))

Grab ==
    /\ pc = "idle"
    /\ \E o \in GrabOutcomes(camera, buffer_info_list) :
        LET g == grab(Fresh(camera), buffer_info_list,
                      _running_continuously, ROI, o)
        IN  /\ camera' = g.camera
            /\ buffer_info_list' = g.list
            /\ ret' = Ret("grab", g.raised, g.frame)
    /\ gm' = IdleGm
    /\ UNCHANGED <<_abort_acquisition, _running_continuously,
                   _using_hardware_trigger, attrVars, pc, bufferCount,
                   otherVars>>

(***************************************************************************)
(* snap(): configure_acquisition(continuous=False, bufferCount=1,          *)
(* snap=True); grab(); stop_acquisition().  The hardware may or may not    *)
(* deliver the image within grab()'s timeout.                              *)
(***************************************************************************)
\* Faulty variant of SnapEpilogue: snap() returns without stopping the recording.
SnapEpilogue_NoStop(g) == g.camera

\* What snap() does once its grab() has returned g.
SnapEpilogue(g) == IF g.raised = "none" THEN stop_acquisition(g.camera) ELSE g.camera

Snap ==
    /\ pc = "idle"
    /\ LET c0 == ConfigurePrologue(Fresh(camera))
           c1 == AllocateLoop(c0, 1)
           l1 == QueuedBy(c0, 1)
       IN \E c2 \in {c1} \cup (IF CanFill(c1) THEN {HwFillOp(c1)} ELSE {}) :
          \E o \in GrabOutcomes(c2, l1) :
            LET g == grab(c2, l1, FALSE, ROI, o)
            IN  /\ camera' = SnapEpilogue(g)
                /\ buffer_info_list' = g.list
                /\ ret' = Ret("snap", g.raised, g.frame)
    /\ _running_continuously' = FALSE
    /\ _using_hardware_trigger' = FALSE
    /\ bufferCount' = 1
    /\ gm' = IdleGm
    /\ UNCHANGED <<_abort_acquisition, attrVars, pc, otherVars>>

(***************************************************************************)
(* grab_multiple(n_images, images), run by the acquisition thread:         *)
(*   gm_check: the abort test at the top of the while loop                 *)
(*   gm_wait:  wait_for_buffer(last_buffer_info, abort_check_period)       *)
(*   gm_grab:  one pass of `for _ in range(n_images)`                      *)
(***************************************************************************)
\* Faulty variant of LastBufferInfo: the buffer number is one too large.
LastBufferInfo_OnePast(list) == list[Len(list)] + 1

\* The slot grab_multiple waits on before its for loop.
LastBufferInfo(list) == list[Len(list)]

GmReturn(op_raised) ==
    /\ pc' = "idle"
    /\ ret' = Ret("grab_multiple", op_raised, NoFrame)

GrabMultiple(n_images) ==
    /\ pc = "idle"
    /\ IF buffer_info_list = <<>>
       THEN /\ GmReturn("IndexError")
            /\ gm' = [IdleGm EXCEPT !.n_images = n_images]
       ELSE /\ pc' = "gm_check"
            /\ ret' = Ret("grab_multiple", "none", NoFrame)
            /\ gm' = [IdleGm EXCEPT !.n_images = n_images,
                        !.last_buffer_info = LastBufferInfo(buffer_info_list)]
    /\ camera' = Fresh(camera)
    /\ UNCHANGED <<buffer_info_list, _abort_acquisition, _running_continuously,
                   _using_hardware_trigger, attrVars, bufferCount, otherVars>>

\* Faulty variant of ClearedAbortFlag: the flag is left set.
ClearedAbortFlag_Stale == TRUE

\* The value grab_multiple leaves in self._abort_acquisition when it has
\* seen the flag set.
ClearedAbortFlag == FALSE

\* if self._abort_acquisition: clear it and return
GmCheck ==
    /\ pc = "gm_check"
    /\ IF _abort_acquisition
       THEN /\ _abort_acquisition' = ClearedAbortFlag
            /\ gm' = [gm EXCEPT !.observed_abort = TRUE]
            /\ GmReturn("none")
       ELSE /\ pc' = "gm_wait"
            /\ UNCHANGED <<_abort_acquisition, gm, ret>>
    /\ camera' = Fresh(camera)
    /\ UNCHANGED <<buffer_info_list, _running_continuously,
                   _using_hardware_trigger, attrVars, bufferCount, otherVars>>

\* Faulty variant of AfterPCOError: every PCOError is swallowed.
AfterPCOError_CatchAll(o) == "continue"

\* Where grab_multiple goes after a PCOError with outcome o in its try block.
AfterPCOError(o) == IF o = "timeout" THEN "continue" ELSE "raise"

GmFailed(o) ==
    IF AfterPCOError(o) = "continue"
    THEN pc' = "gm_check" /\ UNCHANGED ret
    ELSE GmReturn(o)

GmWait ==
    /\ pc = "gm_wait"
    /\ camera' = WaitforBuffer(Fresh(camera), gm.last_buffer_info)
    /\ \E o \in WaitOutcomes(camera, gm.last_buffer_info) :
        /\ gm' = [gm EXCEPT !.last_wait = o, !.k = 0,
                             !.timed_out = @ \/ o = "timeout"]
        /\ IF o = "ok"
           THEN IF gm.n_images = 0
                THEN GmReturn("none")
                ELSE pc' = "gm_grab" /\ UNCHANGED ret
           ELSE GmFailed(o)
    /\ UNCHANGED <<buffer_info_list, _abort_acquisition, _running_continuously,
                   _using_hardware_trigger, attrVars, bufferCount, otherVars>>

GmGrab ==
    /\ pc = "gm_grab"
    /\ \E o \in GrabOutcomes(camera, buffer_info_list) :
        LET g == grab(Fresh(camera), buffer_info_list,
                      _running_continuously, ROI, o)
        IN  /\ camera' = g.camera
            /\ buffer_info_list' = g.list
            /\ IF g.raised = "none"
               THEN /\ gm' = [gm EXCEPT !.images = Append(@, g.frame),
                                        !.k = @ + 1, !.last_wait = "ok"]
                    /\ IF gm.k + 1 = gm.n_images
                       THEN GmReturn("none")
                       ELSE pc' = "gm_grab" /\ UNCHANGED ret
               ELSE IF g.raised = "IndexError"
               THEN gm' = gm /\ GmReturn("IndexError")
               ELSE /\ gm' = [gm EXCEPT !.last_wait = g.raised,
                                        !.timed_out = @ \/ g.raised = "timeout"]
                    /\ GmFailed(g.raised)
    /\ UNCHANGED <<_abort_acquisition, _running_continuously,
                   _using_hardware_trigger, attrVars, bufferCount, otherVars>>

(***************************************************************************)
(* The acquisition pipeline.                                               *)
(***************************************************************************)
BufferCounts == 1 .. MaxBufferCount
ImageCounts == 1 .. (MaxBufferCount + 1)
\* (continuous, snap) as callers other than snap() pass them
ConfigureModes == {<<TRUE, FALSE>>, <<FALSE, FALSE>>}

Init == InitPCO /\ InitMove /\ InitCodec /\ InitWorkers

Next ==
    \/ \E m \in ConfigureModes, n \in BufferCounts :
           ConfigureAcquisition(m[1], n, m[2])
    \/ StopAcquisition
    \/ CleanUpBuffers
    \/ Grab
    \/ Snap
    \/ \E n \in ImageCounts : GrabMultiple(n)
    \/ GmCheck
    \/ GmWait
    \/ GmGrab
    \/ AbortAcquisition
    \/ HwFill

Spec == Init /\ [][Next]_vars

(***************************************************************************)
(* The pipeline on a device whose SDK calls may fail: besides the waits,   *)
(* a call of the allocation loop, of the start of configure_acquisition,   *)
(* of the re-queueing in grab() or of clean_up_buffers may raise PCOError. *)
(* A call that raises is logged and changes nothing at the device.         *)
(***************************************************************************)
\* configure_acquisition when ArmCamera raises: the old slots are gone.
ConfigureAcquisitionRaisesEarly(continuous, snap) ==
    /\ pc = "idle"
    /\ _running_continuously' = continuous
    /\ _using_hardware_trigger' = ~(continuous \/ snap)
    /\ camera' = Logged(
                     SetRecorderSubmode(
                       SetStorageMode(
                         clean_up_buffers(stop_acquisition(Fresh(camera))),
                         1), 1),
                     "ArmCamera", 0)
    /\ buffer_info_list' = <<>>
    /\ ret' = Ret("configure_acquisition", "fatal", NoFrame)
    /\ gm' = IdleGm
    /\ UNCHANGED <<_abort_acquisition, attrVars, pc, bufferCount, otherVars>>

\* configure_acquisition when, after k passes of the allocation loop,
\* AllocateBuffer raises, or AddBufferEx raises in queue_buffer.
ConfigureAcquisitionRaises(continuous, n, snap, k, call) ==
    /\ pc = "idle"
    /\ k < n
    /\ _running_continuously' = continuous
    /\ _using_hardware_trigger' = ~(continuous \/ snap)
    /\ LET c0 == ConfigurePrologue(Fresh(camera))
           c1 == AllocateLoop(c0, k)
       IN  /\ camera' = IF call = "AllocateBuffer"
                         THEN Logged(c1, "AllocateBuffer", NoSlot)
                         ELSE Logged(GetSizes(AllocateBuffer(c1)),
                                     "AddBufferEx", NewBufferIndex(c1))
           /\ buffer_info_list' = QueuedBy(c0, k)
    /\ ret' = Ret("configure_acquisition", "fatal", NoFrame)
    /\ bufferCount' = n
    /\ gm' = IdleGm
    /\ UNCHANGED <<_abort_acquisition, attrVars, pc, otherVars>>

\* grab() when the wait and the read-out succeed and AddBufferEx raises
\* in the queue_buffer that puts the slot back.
GrabRequeueRaises ==
    /\ pc = "idle"
    /\ buffer_info_list # <<>>
    /\ _running_continuously
    /\ GrabTarget(buffer_info_list) \in camera.filled
    /\ camera' = Logged(
                     GetSizes(
                       ReadOut(WaitforBuffer(Fresh(camera),
                                             GrabTarget(buffer_info_list)),
                               GrabTarget(buffer_info_list))),
                     "AddBufferEx", GrabTarget(buffer_info_list))
    /\ buffer_info_list' = Tail(buffer_info_list)
    /\ ret' = Ret("grab", "fatal", NoFrame)
    /\ gm' = IdleGm
    /\ UNCHANGED <<_abort_acquisition, _running_continuously,
                   _using_hardware_trigger, attrVars, pc, bufferCount,
                   otherVars>>

\* clean_up_buffers() when CancelImages raises.
CleanUpBuffersRaises ==
    /\ pc = "idle"
    /\ camera' = Logged(Fresh(camera), "CancelImages", 0)
    /\ ret' = Ret("clean_up_buffers", "fatal", NoFrame)
    /\ gm' = IdleGm
    /\ UNCHANGED <<buffer_info_list, _abort_acquisition,
                   _running_continuously, _using_hardware_trigger, attrVars,
                   pc, bufferCount, otherVars>>

\* The operations of the pipeline and the hardware; no abort is requested.
NextFaults ==
    \/ \E m \in ConfigureModes, n \in BufferCounts :
           ConfigureAcquisition(m[1], n, m[2])
    \/ StopAcquisition
    \/ CleanUpBuffers
    \/ Grab
    \/ Snap
    \/ \E n \in ImageCounts : GrabMultiple(n)
    \/ GmCheck
    \/ GmWait
    \/ GmGrab
    \/ HwFill
    \/ \E m \in ConfigureModes : ConfigureAcquisitionRaisesEarly(m[1], m[2])
    \/ \E m \in ConfigureModes, n \in BufferCounts,
          call \in {"AllocateBuffer", "AddBufferEx"} :
           ConfigureAcquisitionRaises(m[1], n, m[2], n - 1, call)
    \/ GrabRequeueRaises
    \/ CleanUpBuffersRaises

SpecFaults == Init /\ [][NextFaults]_vars

(***************************************************************************)
(* Camera attributes: set_attribute / set_attributes with the software     *)
(* ROI and the Binning setting, which changes the image size at the next   *)
(* ArmCamera().  A call works on st = [camera, ROI, raised, text].         *)
(***************************************************************************)
RoiMalformed(roi) ==
    \/ ~(RoiKeys \subseteq DOMAIN roi)
    \/ \E key \in RoiKeys : ~ValueIsNonnegative(roi, key)

\* Why set_ROI raises ValueError, "" when it does not.
RoiErrorText(roi, sizes) ==
    IF ~(RoiKeys \subseteq DOMAIN roi) THEN "keys"
    ELSE IF \E key \in RoiKeys : ~ValueIsNonnegative(roi, key) THEN "nonnegative"
    ELSE IF roi.offsetX + roi.width > sizes[1] THEN "width"
    ELSE IF roi.offsetY + roi.height > sizes[2] THEN "height"
    ELSE ""

\* Faulty variant of SizesSeenBySetROI: set_ROI without its ArmCamera() call.
SizesSeenBySetROI_NotArmed(c) == GetSizes(c)

\* set_ROI arms the camera so that changes to binning etc. are applied
\* before it asks for the image size.
SizesSeenBySetROI(c) == GetSizes(ArmCamera(c))

set_ROI(st, roi) ==
    IF RoiMalformed(roi)
    THEN [st EXCEPT !.raised = "ValueError",
                    !.text = RoiErrorText(roi, st.camera.sizes)]
    ELSE LET c1 == SizesSeenBySetROI(st.camera)
         IN  IF RoiRejected(roi, c1.sizes)
             THEN [st EXCEPT !.camera = c1, !.raised = "ValueError",
                             !.text = RoiErrorText(roi, c1.sizes)]
             ELSE [st EXCEPT !.camera = c1, !.ROI = roi]

\* set_attribute(name, value) for the attributes modelled
set_attribute(st, name, value) ==
    IF name = "ROI" THEN set_ROI(st, value)
    ELSE [st EXCEPT !.camera = SetBinning(@, value)]

\* set_attributes(attr_dict): one set_attribute per item, in dict order; the
\* first exception ends the loop.
RECURSIVE set_attributes(_, _)
set_attributes(st, items) ==
    IF items = <<>> \/ st.raised # "none" THEN st
    ELSE set_attributes(set_attribute(st, items[1].name, items[1].value),
                        Tail(items))

AttrState == [camera |-> Fresh(camera), ROI |-> ROI, raised |-> "none", text |-> ""]

AttrCall(op, arg, st) ==
    /\ pc = "idle"
    /\ camera' = st.camera
    /\ ROI' = st.ROI
    /\ ret' = [Ret(op, st.raised, NoFrame) EXCEPT !.text = st.text, !.arg = arg]
    /\ gm' = IdleGm
    /\ UNCHANGED <<buffer_info_list, _abort_acquisition, _running_continuously,
                   _using_hardware_trigger, fliplr, flipud, pc, bufferCount,
                   otherVars>>

SetROI(roi) == AttrCall("set_ROI", roi, set_attribute(AttrState, "ROI", roi))
SetBinningAttribute(b) ==
    AttrCall("set_attribute", NoCall.arg, set_attribute(AttrState, "Binning", b))
SetAttributes(items) ==
    AttrCall("set_attributes", NoCall.arg, set_attributes(AttrState, items))

Binnings == {<<1, 1>>, <<2, 1>>, <<1, 2>>, <<2, 2>>}
\* ROIs passed to set_ROI: every horizontal extent up to twice the sensor
\* width, with a vertical extent that is full, binned, shifted out of the
\* image or too tall; and two with a negative entry.
RoiInputs ==
    {[offsetX |-> x, offsetY |-> y[1], width |-> w, height |-> y[2]] :
        x \in 0 .. MaxHorzRes, w \in 0 .. MaxHorzRes,
        y \in {<<0, MaxVertRes>>, <<0, MaxVertRes \div 2>>,
               <<1, MaxVertRes>>, <<0, MaxVertRes + 1>>}}
    \cup {[FullFrame(<<1, 1>>) EXCEPT !.offsetX = -1],
          [FullFrame(<<1, 1>>) EXCEPT !.height = -1]}
RoiMissingKey == [offsetX |-> 0, offsetY |-> 0, width |-> 1]
Item(name, value) == [name |-> name, value |-> value]

NextAttr ==
    \/ \E roi \in RoiInputs : SetROI(roi)
    \/ SetROI(RoiMissingKey)
    \/ \E b \in Binnings : SetBinningAttribute(b)
    \/ \E b \in Binnings, full \in Binnings :
           SetAttributes(<<Item("Binning", b),
                           Item("ROI", FullFrame(SizesFor(full)))>>)
    \/ \E b \in Binnings, full \in Binnings :
           SetAttributes(<<Item("ROI", FullFrame(SizesFor(full))),
                           Item("Binning", b)>>)
    \/ Snap

SpecAttr == Init /\ [][NextAttr]_vars

(***************************************************************************)
(* The flips and the frames cut with them: set_ROI, Binning, set_fliplr,   *)
(* set_flipud and snap() on small ROIs.                                    *)
(***************************************************************************)
\* A value passed to set_fliplr / set_flipud: its Python type and its truth
\* value (True, False, 1, None).
FlipInputs ==
    {[type |-> "bool", truth |-> b] : b \in BOOLEAN}
    \cup {[type |-> "int", truth |-> TRUE], [type |-> "NoneType", truth |-> FALSE]}

FlipState ==
    [fliplr |-> fliplr, flipud |-> flipud, raised |-> "none", text |-> ""]

\* Faulty variant of set_fliplr: any value is stored as its truth value.
set_fliplr_Coerces(st, value) == [st EXCEPT !.fliplr = value.truth]

set_fliplr(st, value) ==
    IF value.type # "bool"
    THEN [st EXCEPT !.raised = "ValueError", !.text = "fliplr"]
    ELSE [st EXCEPT !.fliplr = value.truth]

set_flipud(st, value) ==
    IF value.type # "bool"
    THEN [st EXCEPT !.raised = "ValueError", !.text = "flipud"]
    ELSE [st EXCEPT !.flipud = value.truth]

\* ret after set_fliplr / set_flipud: as Ret, with the value passed.
FlipRet(op, value, st) ==
    [op |-> op, raised |-> st.raised, text |-> st.text, frame |-> NoFrame,
     arg |-> NoCall.arg, flip |-> value]

FlipCall(op, value, st) ==
    /\ pc = "idle"
    /\ fliplr' = st.fliplr
    /\ flipud' = st.flipud
    /\ camera' = Fresh(camera)
    /\ ret' = FlipRet(op, value, st)
    /\ gm' = IdleGm
    /\ UNCHANGED <<buffer_info_list, _abort_acquisition, _running_continuously,
                   _using_hardware_trigger, ROI, pc, bufferCount, otherVars>>

SetFliplr(value) ==
    FlipCall("set_fliplr", value, set_fliplr(FlipState, value))
SetFlipud(value) ==
    FlipCall("set_flipud", value, set_flipud(FlipState, value))

\* ROIs passed to set_ROI: every horizontal extent of at least one pixel
\* that starts in the first two columns and is no wider than the sensor,
\* over all rows or over the second row; and one with a negative entry.
FrameRois ==
    {[offsetX |-> x, offsetY |-> y[1], width |-> w, height |-> y[2]] :
        x \in 0 .. 1, w \in 1 .. MaxHorzRes,
        y \in {<<0, MaxVertRes>>, <<1, 1>>}}
    \cup {[FullFrame(<<1, 1>>) EXCEPT !.offsetY = -1]}

NextFrame ==
    \/ \E roi \in FrameRois : SetROI(roi)
    \/ SetROI(RoiMissingKey)
    \/ \E b \in Binnings : SetBinningAttribute(b)
    \/ \E value \in FlipInputs : SetFliplr(value)
    \/ \E value \in FlipInputs : SetFlipud(value)
    \/ Snap

SpecFrame == Init /\ [][NextFrame]_vars

(***************************************************************************)
(* Teardown.  PCOCamera.__init__ calls reinitialize_camera() on a camera   *)
(* it has just opened, which an earlier session may have left recording    *)
(* into any of the 16 slots.  (The idle camera with allocated slots is the *)
(* state after StopAcquisition in Spec.)                                   *)
(***************************************************************************)
RECURSIVE Ascending(_)
Ascending(S) == IF S = {} THEN <<>> ELSE <<Min(S)>> \o Ascending(S \ {Min(S)})

InitCleanup ==
    /\ \E S \in SUBSET Slots :
         camera = [InitCamera EXCEPT
                      !.allocated = S,
                      !.queue = Ascending(S),
                      !.pending = Ascending(S),
                      !.recording = 1]
    /\ buffer_info_list = <<>>
    /\ _abort_acquisition = FALSE
    /\ _running_continuously = FALSE
    /\ _using_hardware_trigger = TRUE
    /\ ROI = FullFrame(SizesFor(<<1, 1>>))
    /\ fliplr = FALSE
    /\ flipud = FALSE
    /\ pc = "idle"
    /\ gm = IdleGm
    /\ ret = NoCall
    /\ bufferCount = 0
    /\ InitMove /\ InitCodec /\ InitWorkers

\* reinitialize_camera()
ReinitializeCamera ==
    /\ pc = "idle"
    /\ camera' = reinitialize_camera(Fresh(camera))
    /\ buffer_info_list' = <<>>
    /\ ret' = Ret("reinitialize_camera", "none", NoFrame)
    /\ gm' = IdleGm
    /\ UNCHANGED <<_abort_acquisition, _running_continuously,
                   _using_hardware_trigger, attrVars, pc, bufferCount,
                   otherVars>>

NextCleanup == CleanUpBuffers \/ ReinitializeCamera

SpecCleanup == InitCleanup /\ [][NextCleanup]_vars

(***************************************************************************)
(* _ElliptecInterface and _KDC101Interface.  A hardware command either     *)
(* completes or raises once it has been sent (no reply before the bus      *)
(* timeout, motion not finished before default_timeout).                   *)
(***************************************************************************)
CommandOutcomes == {"ok", "raises"}

\* write(address, message): what goes over the bus
Message(address, command, data) ==
    [address |-> address, command |-> command, data |-> data]

\* The result of an interface method: the commands sent, whether it raised,
\* and the cache it leaves.
Moved(sent, raised, cache) == [sent |-> sent, raised |-> raised, cache |-> cache]

\* Faulty variant of move: one cached position for the whole bus.
move_OneCache(cache, address, position_in_counts, fresh, o) ==
    LET last_set_position_in_counts == cache[Min(Addresses)]
    IN  IF fresh \/ Some(position_in_counts) # last_set_position_in_counts
        THEN Moved(<<Message(address, "ma",
                       _position_counts_to_str(PyInt(position_in_counts)))>>,
                   o = "raises",
                   IF o = "raises" THEN cache
                   ELSE [cache EXCEPT ![address] = Some(position_in_counts)])
        ELSE Moved(<<>>, FALSE, cache)

\* Faulty variant of move: the position is cached before the command is
\* known to have completed.
move_CachesFirst(cache, address, position_in_counts, fresh, o) ==
    LET last_set_position_in_counts == cache[address]
    IN  IF fresh \/ Some(position_in_counts) # last_set_position_in_counts
        THEN Moved(<<Message(address, "ma",
                       _position_counts_to_str(PyInt(position_in_counts)))>>,
                   o = "raises",
                   [cache EXCEPT ![address] = Some(position_in_counts)])
        ELSE Moved(<<>>, FALSE, cache)

\* _ElliptecInterface.move
move(cache, address, position_in_counts, fresh, o) ==
    LET last_set_position_in_counts == cache[address]
    IN  IF fresh \/ Some(position_in_counts) # last_set_position_in_counts
        THEN Moved(<<Message(address, "ma",
                       _position_counts_to_str(PyInt(position_in_counts)))>>,
                   o = "raises",
                   IF o = "raises" THEN cache
                   ELSE [cache EXCEPT ![address] = Some(position_in_counts)])
        ELSE Moved(<<>>, FALSE, cache)

\* Faulty variant of home: the cached position survives the homing.
home_KeepsCache(cache, address, clockwise, o) ==
    Moved(<<Message(address, "ho", IF clockwise THEN <<"0">> ELSE <<"1">>)>>,
          o = "raises",
          cache)

\* _ElliptecInterface.home
home(cache, address, clockwise, o) ==
    Moved(<<Message(address, "ho", IF clockwise THEN <<"0">> ELSE <<"1">>)>>,
          o = "raises",
          [cache EXCEPT ![address] = None])

\* _ElliptecInterface.move_relative
move_relative(cache, address, relative_position_in_counts, o) ==
    Moved(<<Message(address, "mr",
              _position_counts_to_str(PyInt(relative_position_in_counts)))>>,
          o = "raises",
          [cache EXCEPT ![address] = None])

\* _KDC101Interface.move; the command is controller.MoveTo
KDC101_move(cache, position, fresh, o) ==
    IF fresh \/ Some(float(position)) # cache
    THEN Moved(<<Message(0, "MoveTo", float(position))>>,
               o = "raises",
               IF o = "raises" THEN cache ELSE Some(float(position)))
    ELSE Moved(<<>>, FALSE, cache)

\* _KDC101Interface.home; the command is controller.Home
KDC101_home(cache, o) == Moved(<<Message(0, "Home", <<>>)>>, o = "raises", cache)

\* An Elliptec method has run for one address.
ElliptecCalled(address, op, pos, fresh, m) ==
    LET call == Call(op, pos, m.raised, Len(m.sent))
    IN  /\ bus.dev = "elliptec"
        /\ last_set_positions_in_counts' = m.cache
        /\ hist' = [hist EXCEPT !.elliptec[address] = call]
        /\ bus' = [dev |-> "elliptec", address |-> address, call |-> call,
                   fresh |-> fresh, sent |-> m.sent,
                   cached |-> last_set_positions_in_counts[address],
                   prev |-> hist.elliptec[address]]
        /\ UNCHANGED <<last_set_position, pcoVars, codecVars, workerVars>>

\* A KDC101 method has run.
KDC101Called(op, pos, fresh, m) ==
    LET call == Call(op, pos, m.raised, Len(m.sent))
    IN  /\ bus.dev = "kdc101"
        /\ last_set_position' = m.cache
        /\ hist' = [hist EXCEPT !.kdc101 = call]
        /\ bus' = [dev |-> "kdc101", address |-> 0, call |-> call,
                   fresh |-> fresh, sent |-> m.sent,
                   cached |-> last_set_position, prev |-> hist.kdc101]
        /\ UNCHANGED <<last_set_positions_in_counts, pcoVars, codecVars,
                     workerVars>>

ElliptecMove(address, position_in_counts, fresh, o) ==
    ElliptecCalled(address, "move", Some(position_in_counts), fresh,
        move(last_set_positions_in_counts, address, position_in_counts,
             fresh, o))

ElliptecHome(address, clockwise, o) ==
    ElliptecCalled(address, "home", None, TRUE,
        home(last_set_positions_in_counts, address, clockwise, o))

ElliptecMoveRelative(address, relative_position_in_counts, o) ==
    ElliptecCalled(address, "move_relative", None, TRUE,
        move_relative(last_set_positions_in_counts, address,
                      relative_position_in_counts, o))

KDC101Move(position, fresh, o) ==
    KDC101Called("move", Some(float(position)), fresh,
        KDC101_move(last_set_position, position, fresh, o))

KDC101Home(o) ==
    KDC101Called("home", None, TRUE, KDC101_home(last_set_position, o))

\* ElliptecWorker and KDC101Worker are separate worker processes, each
\* with its own interface object: a behaviour is the life of one of them.
InitMoves ==
    /\ InitPCO /\ InitCodec /\ InitWorkers
    /\ last_set_positions_in_counts = [a \in Addresses |-> None]
    /\ last_set_position = None
    /\ hist = [elliptec |-> [a \in Addresses |-> NoCallYet],
               kdc101 |-> NoCallYet]
    /\ \E dev \in {"elliptec", "kdc101"} : bus = [IdleBus EXCEPT !.dev = dev]

InitCodecs == InitPCO /\ InitMove /\ InitCodec /\ InitWorkers

NextMove ==
    \/ \E a \in Addresses, p \in Positions, fresh \in BOOLEAN,
          o \in CommandOutcomes : ElliptecMove(a, p, fresh, o)
    \/ \E a \in Addresses, clockwise \in BOOLEAN, o \in CommandOutcomes :
          ElliptecHome(a, clockwise, o)
    \/ \E a \in Addresses, d \in RelativeMoves, o \in CommandOutcomes :
          ElliptecMoveRelative(a, d, o)
    \/ \E p \in KDCInputs, fresh \in BOOLEAN, o \in CommandOutcomes :
          KDC101Move(p, fresh, o)
    \/ \E o \in CommandOutcomes : KDC101Home(o)

SpecMove == InitMoves /\ [][NextMove]_vars

(***************************************************************************)
(* The position codec: an integer is encoded for a command and the string  *)
(* is decoded again, as get_position() decodes the device's reply.         *)
(***************************************************************************)
MaxOffset == 3          \* distance of the integers tried from the limb ends

HiSamples == {-(2^15), 1 - 2^15, -1, 0, 1, 2^15 - 2, 2^15 - 1}
LoSamples == (0 .. MaxOffset) \cup ((Limb - 1 - MaxOffset) .. (Limb - 1))
\* integers of -2^31 .. 2^31 - 1, and 2^31
CodecInputs == {Norm(hi, lo) : hi \in HiSamples, lo \in LoSamples}
                  \cup {TwoToThe(31)}

PositionCountsToStr(x) ==
    /\ codec.stage \in {"idle", "decoded"}
    /\ codec' = [stage |-> "encoded", x |-> x,
                 str |-> _position_counts_to_str(x), back |-> PyInt(0)]
    /\ UNCHANGED <<pcoVars, moveVars, workerVars>>

PositionStrToCounts ==
    /\ codec.stage = "encoded"
    /\ codec' = [codec EXCEPT !.stage = "decoded",
                              !.back = _position_str_to_counts(codec.str)]
    /\ UNCHANGED <<pcoVars, moveVars, workerVars>>

NextCodec ==
    \/ \E x \in CodecInputs : PositionCountsToStr(x)
    \/ PositionStrToCounts

SpecCodec == InitCodecs /\ [][NextCodec]_vars

(***************************************************************************)
(* Opening a connection: _ElliptecInterface.open_resource,                 *)
(* _Agilent83650B._open_resource and _KDC101Interface.open.  The transport *)
(* answers every attempt with success, with its connection error           *)
(* (pyvisa's VisaIOError, Kinesis' DeviceNotReadyException) or with some   *)
(* other exception.  An error is the pair of its kind and the attempt that *)
(* raised it.                                                              *)
(***************************************************************************)
\* max_attempts, the same in the three routines
max_attempts == 10

ConnectionErrorKinds == {"not found", "busy"}
OtherErrorKinds == {"other"}
Error(kind, attempt) == [kind |-> kind, attempt |-> attempt]
NoError == Error("none", 0)
OpenRoutines == {"open_resource", "_open_resource", "open"}

\* The locals of a routine that has just been entered.
Entered(routine) ==
    [routine |-> routine, pc |-> "running", need_to_connect |-> TRUE,
     n_connection_attempt |-> 1, connection_error |-> NoError,
     attempts |-> 0, sleeps |-> 0, raised |-> NoError]

\* The answers the transport can give to the next attempt.
AttemptOutcomes(c) ==
    {Error(k, c.attempts + 1) :
        k \in {"ok"} \cup ConnectionErrorKinds \cup OtherErrorKinds}

Raises(c, err) == [c EXCEPT !.pc = "raised", !.raised = err]

\* while need_to_connect and (n_connection_attempt <= max_attempts), and
\* the raise after the loop
AfterPass(c) ==
    IF c.need_to_connect /\ c.n_connection_attempt <= max_attempts THEN c
    ELSE IF c.need_to_connect THEN Raises(c, c.connection_error)
    ELSE [c EXCEPT !.pc = "connected"]

\* One pass of the loop of _ElliptecInterface.open_resource.
open_resource(c, o) ==
    LET tried == [c EXCEPT !.attempts = @ + 1]
    IN  IF o.kind = "ok" THEN AfterPass([tried EXCEPT !.need_to_connect = FALSE])
        ELSE IF o.kind \in ConnectionErrorKinds
        THEN AfterPass([tried EXCEPT !.n_connection_attempt = @ + 1,
                                     !.connection_error = o,
                                     !.sleeps = @ + 1])
        ELSE Raises(tried, o)

\* One pass of the loop of _KDC101Interface.open.
open(c, o) ==
    LET tried == [c EXCEPT !.attempts = @ + 1]
    IN  IF o.kind = "ok" THEN AfterPass([tried EXCEPT !.need_to_connect = FALSE])
        ELSE IF o.kind \in ConnectionErrorKinds
        THEN AfterPass([tried EXCEPT !.n_connection_attempt = @ + 1,
                                     !.connection_error = o,
                                     !.sleeps = @ + 1])
        ELSE Raises(tried, o)

\* Faulty variant of _open_resource: gives up one failure too late.
_open_resource_OneMore(c, o) ==
    LET tried == [c EXCEPT !.attempts = @ + 1]
    IN  IF o.kind = "ok" THEN [tried EXCEPT !.need_to_connect = FALSE,
                                       !.pc = "connected"]
        ELSE IF o.kind \in ConnectionErrorKinds
        THEN IF c.n_connection_attempt > max_attempts
             THEN Raises(tried, o)
             ELSE [tried EXCEPT !.n_connection_attempt = @ + 1,
                                !.sleeps = @ + 1]
        ELSE Raises(tried, o)

\* One pass of the loop (while need_to_connect) of
\* _Agilent83650B._open_resource.
_open_resource(c, o) ==
    LET tried == [c EXCEPT !.attempts = @ + 1]
    IN  IF o.kind = "ok" THEN [tried EXCEPT !.need_to_connect = FALSE,
                                       !.pc = "connected"]
        ELSE IF o.kind \in ConnectionErrorKinds
        THEN IF c.n_connection_attempt >= max_attempts
             THEN Raises(tried, o)
             ELSE [tried EXCEPT !.n_connection_attempt = @ + 1,
                                !.sleeps = @ + 1]
        ELSE Raises(tried, o)

EnterOpen(routine) ==
    /\ conn.routine = "none"
    /\ conn' = Entered(routine)
    /\ UNCHANGED <<pcoVars, moveVars, codecVars, ell, kdc, synth, limits>>

OpenPass(routine, o) ==
    /\ conn.routine = routine /\ conn.pc = "running"
    /\ conn' = CASE routine = "open_resource" -> open_resource(conn, o)
                 [] routine = "_open_resource" -> _open_resource(conn, o)
                 [] routine = "open" -> open(conn, o)
    /\ UNCHANGED <<pcoVars, moveVars, codecVars, ell, kdc, synth, limits>>

ElliptecOpenPass ==
    /\ conn.routine = "open_resource"
    /\ \E o \in AttemptOutcomes(conn) : OpenPass("open_resource", o)
AgilentOpenPass ==
    /\ conn.routine = "_open_resource"
    /\ \E o \in AttemptOutcomes(conn) : OpenPass("_open_resource", o)
KDC101OpenPass ==
    /\ conn.routine = "open"
    /\ \E o \in AttemptOutcomes(conn) : OpenPass("open", o)

NextOpen ==
    \/ \E routine \in OpenRoutines : EnterOpen(routine)
    \/ ElliptecOpenPass
    \/ AgilentOpenPass
    \/ KDC101OpenPass

SpecOpen == Init /\ [][NextOpen]_vars

(***************************************************************************)
(* Worker start-up.  BLACS calls init() once in each worker process; a     *)
(* behaviour is the start-up of one worker.  The interface constructor     *)
(* opens the connection (see the connection routines above) and either     *)
(* returns or raises; every later query either returns or raises.          *)
(***************************************************************************)
Serials == {"12345678", "11400310"}
MockSerial == "12345678"

\* The devices of one interface board, in the order of child_list.
ConnectionTables ==
    {t \in UNION {[1 .. n -> Addresses] : n \in 0 .. Cardinality(Addresses)} :
        \A i, j \in DOMAIN t : i # j => t[i] # t[j]}
Connected(table) == {table[i] : i \in DOMAIN table}

\* A call of a controller method by the worker.
ControllerCall(method, address) == [method |-> method, address |-> address]

\* ElliptecWorker.init after the controller is constructed.
ElliptecStarted(mock, table, serial_numbers, settings, actual) ==
    [pc |-> "check_serial_numbers", mock |-> mock, connections |-> table,
     connection_serial_numbers |-> serial_numbers,
     homing_settings |-> settings, actual |-> actual,
     i |-> 1, log |-> <<>>, raised |-> "none"]

\* ElliptecWorker.init when the constructor of the controller raised.
ElliptecNotConnected(mock, table, serial_numbers, settings, actual) ==
    [ElliptecStarted(mock, table, serial_numbers, settings, actual)
        EXCEPT !.pc = "raised", !.raised = "VisaIOError"]

\* Faulty variant of HomeOnStartup: every device of the board is homed.
HomeOnStartup_Always(e, i) == TRUE

\* do_homing: if home_on_startup
HomeOnStartup(e, i) == e.homing_settings[e.connections[i]]

\* do_homing skips the devices that are not to be homed.
RECURSIVE NextToHome(_, _)
NextToHome(e, i) ==
    IF i > Len(e.connections) THEN i
    ELSE IF HomeOnStartup(e, i) THEN i
    ELSE NextToHome(e, i + 1)

\* The end of do_homing is the end of init.
AtHoming(e, i) ==
    LET k == NextToHome(e, i)
    IN  IF k > Len(e.connections) THEN [e EXCEPT !.pc = "returned", !.i = k]
        ELSE [e EXCEPT !.pc = "do_homing", !.i = k]

\* The end of check_serial_numbers is the start of do_homing.
AtCheck(e, i) ==
    IF i > Len(e.connections) THEN AtHoming(e, 1)
    ELSE [e EXCEPT !.pc = "check_serial_numbers", !.i = i]

\* get_serial_number of the mock and of the real controller
get_serial_number(e, address) ==
    IF e.mock THEN MockSerial ELSE e.actual[address]

\* One turn of the loop of check_serial_numbers.
check_serial_numbers(e, o) ==
    LET connection == e.connections[e.i]
        serial_number == e.connection_serial_numbers[connection]
        called == [e EXCEPT !.log = Append(@,
                      ControllerCall("get_serial_number", connection))]
    IN  IF o = "raises" /\ ~e.mock
        THEN [called EXCEPT !.pc = "raised", !.raised = "VisaIOError"]
        ELSE IF serial_number # get_serial_number(e, connection)
        THEN [called EXCEPT !.pc = "raised", !.raised = "ValueError"]
        ELSE AtCheck(called, e.i + 1)

\* One turn of the loop of do_homing that homes a device.
do_homing(e, o) ==
    LET connection == e.connections[e.i]
        called == [e EXCEPT !.log = Append(@,
                      ControllerCall("home", connection))]
    IN  IF o = "raises" /\ ~e.mock
        THEN [called EXCEPT !.pc = "raised", !.raised = "VisaIOError"]
        ELSE AtHoming(called, e.i + 1)

NoWorkerStarted ==
    /\ ell = IdleEll /\ kdc = IdleKdc /\ synth = IdleSynth

ElliptecInit(mock, table, serial_numbers, settings, actual, opened) ==
    /\ NoWorkerStarted
    /\ ell' = IF opened
              THEN AtCheck(ElliptecStarted(mock, table, serial_numbers,
                                           settings, actual), 1)
              ELSE ElliptecNotConnected(mock, table, serial_numbers,
                                        settings, actual)
    /\ UNCHANGED <<pcoVars, moveVars, codecVars, conn, kdc, synth, limits>>

ElliptecCheckSerialNumber(o) ==
    /\ ell.pc = "check_serial_numbers"
    /\ ell' = check_serial_numbers(ell, o)
    /\ UNCHANGED <<pcoVars, moveVars, codecVars, conn, kdc, synth, limits>>

ElliptecDoHoming(o) ==
    /\ ell.pc = "do_homing"
    /\ ell' = do_homing(ell, o)
    /\ UNCHANGED <<pcoVars, moveVars, codecVars, conn, kdc, synth, limits>>

ElliptecStartUp ==
    \/ \E mock \in BOOLEAN, table \in ConnectionTables, opened \in BOOLEAN :
          \E serial_numbers \in [Connected(table) -> Serials],
             settings \in [Connected(table) -> BOOLEAN],
             actual \in [Connected(table) -> Serials] :
                ElliptecInit(mock, table, serial_numbers, settings, actual,
                             opened \/ mock)
    \/ \E o \in CommandOutcomes : ElliptecCheckSerialNumber(o)
    \/ \E o \in CommandOutcomes : ElliptecDoHoming(o)

\* KDC101Worker.init after the controller is constructed; the mock starts
\* not homed.
KDC101Started(mock, allow_homing, is_homed) ==
    [pc |-> "init", mock |-> mock, allow_homing |-> allow_homing,
     is_homed |-> is_homed /\ ~mock, was_homed |-> is_homed /\ ~mock,
     connected |-> TRUE, log |-> <<>>, raised |-> "none"]

\* KDC101Worker.init when the constructor of the controller raised.
KDC101NotConnected(mock, allow_homing, is_homed) ==
    [KDC101Started(mock, allow_homing, is_homed)
        EXCEPT !.pc = "raised", !.connected = FALSE,
               !.raised = "DeviceNotReadyException"]

\* controller.home(): Home(default_timeout) returns when the stage is homed
\* or raises.
KDC101Homing(k, o) ==
    LET called == [k EXCEPT !.log = Append(@, "Home")]
    IN  IF o = "raises" /\ ~k.mock
        THEN [called EXCEPT !.pc = "raised", !.raised = "Exception"]
        ELSE [called EXCEPT !.pc = "returned", !.is_homed = TRUE]

\* controller.close() followed by raise RuntimeError
KDC101Refusing(k) ==
    [k EXCEPT !.log = @ \o <<"StopPolling", "Disconnect">>,
              !.connected = FALSE,
              !.pc = "raised", !.raised = "RuntimeError"]

\* Faulty variant of KDC101Worker_init: homes whatever allow_homing says.
KDC101Worker_init_HomesAnyway(k, o) ==
    IF ~k.is_homed THEN KDC101Homing(k, o)
    ELSE [k EXCEPT !.pc = "returned"]

\* KDC101Worker.init from the test of is_homed on.
KDC101Worker_init(k, o) ==
    IF ~k.is_homed
    THEN IF k.allow_homing THEN KDC101Homing(k, o) ELSE KDC101Refusing(k)
    ELSE [k EXCEPT !.pc = "returned"]

KDC101Init(mock, allow_homing, is_homed, opened, o) ==
    /\ NoWorkerStarted
    /\ kdc' = IF opened
              THEN KDC101Worker_init(
                       KDC101Started(mock, allow_homing, is_homed), o)
              ELSE KDC101NotConnected(mock, allow_homing, is_homed)
    /\ UNCHANGED <<pcoVars, moveVars, codecVars, conn, ell, synth, limits>>

KDC101StartUp ==
    \E mock \in BOOLEAN, allow_homing \in BOOLEAN, is_homed \in BOOLEAN,
       opened \in BOOLEAN, o \in CommandOutcomes :
          KDC101Init(mock, allow_homing, is_homed, opened \/ mock, o)

\* The synthesizer worker.  Frequencies are in MHz, powers in whole dBm.
MaxPrograms == 2        \* calls of set_output_settings in one behaviour
GpibAddresses == {5, 19}
Frequencies == {100, 6835}
Powers == {0}

\* A string sent with write() or query(): its text and the number in it.
Command(text, arg) == [text |-> text, arg |-> arg]

\* The commands _configure_gpib_interface writes.
_configure_gpib_interface(gpib_address) ==
    <<Command("++mode", 1), Command("++auto", 0),
      Command("++addr", gpib_address),
      Command("++eos", 2), Command("++eoi", 1)>>

NoValues == [output_enabled |-> None, frequency |-> None, power |-> None]

\* What followed the most recent write of a setting that reached the
\* instrument: whether its read-back returned, and the value it gave.
ReadBack(read, value) == [read |-> read, value |-> value]
NothingRead ==
    [name \in {"output_enabled", "frequency", "power"} |->
        ReadBack(FALSE, None)]

\* No call of set_output_settings yet.
NoProgram == [op |-> "none", values |-> None, fresh |-> TRUE,
              last_set_values |-> NoValues, last_actual_values |-> NoValues,
              written |-> 0]

\* _Agilent83650B.__init__ after _open_resource.  Its third statement is
\* the expression self._configure_gpib_interface, which names the method
\* and does not call it: nothing is written.  instrument is how the device
\* answers a query: 0 reports what was set, 1 reports the frequency and the
\* power one unit away from it and the output as off.
Agilent83650B(gpib_address, ramp_between_frequencies, instrument) ==
    [pc |-> "constructed", mock |-> FALSE, gpib_address |-> gpib_address,
     ramp_between_frequencies |-> ramp_between_frequencies,
     instrument |-> instrument,
     written |-> <<>>, last_set_values |-> NoValues,
     last_actual_values |-> NoValues, returned |-> NoValues,
     read_back |-> NothingRead,
     call |-> NoProgram, programs |-> 0, raised |-> "none"]

\* _MockAgilent83650B.__init__: no port, and of the two dictionaries only
\* last_set_values; the object has no attribute last_actual_values.
MockAgilent83650B(gpib_address, ramp_between_frequencies) ==
    [Agilent83650B(gpib_address, ramp_between_frequencies, 0)
        EXCEPT !.mock = TRUE]

\* _Agilent83650B.__init__ when _open_resource raised.
AgilentNotConnected(gpib_address, ramp_between_frequencies, instrument) ==
    [Agilent83650B(gpib_address, ramp_between_frequencies, instrument)
        EXCEPT !.pc = "raised", !.raised = "VisaIOError"]

\* What the instrument answers when asked for a setting it was sent.
Answer(s, name, value) ==
    IF s.instrument = 0 THEN value
    ELSE IF name = "output_enabled" THEN FALSE
    ELSE value + s.instrument

\* The port fails at no command of a call, or at the write or at the read
\* of one setting.
NoFault == [setting |-> "none", step |-> "none"]
Faults ==
    {NoFault} \cup [setting : {"frequency", "power", "output_enabled"},
                    step : {"write", "read"}]

\* A property setter: write the setting, remember it, read it back (the
\* getter writes the query and reads the answer with '++read') and
\* remember the answer.  A command that raises ends the setter there.  The
\* setters of the mock only keep the value and remember it as set.
Set(s, name, text, value, arg, fault) ==
    IF s.mock THEN [s EXCEPT !.last_set_values[name] = Some(value)]
    ELSE IF fault.setting = name /\ fault.step = "write"
    THEN [s EXCEPT !.written = @ \o <<Command(text, arg)>>,
                   !.raised = "VisaIOError"]
    ELSE IF fault.setting = name /\ fault.step = "read"
    THEN [s EXCEPT !.written = @ \o <<Command(text, arg),
                                      Command(text \o "?", 0),
                                      Command("++read", 0)>>,
                   !.last_set_values[name] = Some(value),
                   !.read_back[name] = ReadBack(FALSE, None),
                   !.raised = "VisaIOError"]
    ELSE [s EXCEPT !.written = @ \o <<Command(text, arg),
                                      Command(text \o "?", 0),
                                      Command("++read", 0)>>,
                   !.last_set_values[name] = Some(value),
                   !.last_actual_values[name] = Some(Answer(s, name, value)),
                   !.read_back[name] =
                       ReadBack(TRUE, Some(Answer(s, name, value)))]

\* The return statement of a smart_set_* method that did not raise, which
\* reads self.last_actual_values; returned[name] is None while the method
\* has not returned.
Return(s, name, value) ==
    IF s.raised # "none" THEN s
    ELSE IF s.mock THEN [s EXCEPT !.raised = "AttributeError"]
    ELSE [s EXCEPT !.returned[name] = Some(value)]

smart_set_frequency(s, frequency, fresh, fault) ==
    LET t == IF fresh \/ Some(frequency) # s.last_set_values.frequency
             THEN IF s.ramp_between_frequencies /\ ~s.mock
                  THEN [s EXCEPT !.raised = "NotImplementedError"]
                  ELSE Set(s, "frequency", ":FREQuency:CW", frequency,
                           frequency, fault)
             ELSE s
    IN  Return(t, "frequency", t.last_actual_values.frequency)

smart_set_power(s, power, fresh, fault) ==
    LET t == IF fresh \/ Some(power) # s.last_set_values.power
             THEN Set(s, "power", ":POWer:LEVel", power, power, fault)
             ELSE s
    IN  Return(t, "power", t.last_actual_values.power)

smart_set_output_enabled(s, output_enabled, fresh, fault) ==
    LET t == IF fresh
                  \/ Some(output_enabled) # s.last_set_values.output_enabled
             THEN Set(s, "output_enabled", ":POWer:STATe", output_enabled,
                      IF output_enabled THEN 1 ELSE 0, fault)
             ELSE s
    IN  Return(t, "output_enabled", t.last_actual_values.output_enabled)

\* Agilent83650BWorker.set_output_settings for the one connection 'dds 0';
\* the actual_values it returns are the field returned.
set_output_settings(s, values, fresh, fault) ==
    LET f == smart_set_frequency(s, values.freq, fresh, fault)
        a == IF f.raised # "none" THEN f
             ELSE smart_set_power(f, values.amp, fresh, fault)
    IN  IF a.raised # "none" THEN a
        ELSE smart_set_output_enabled(a, values.gate, fresh, fault)

\* Agilent83650BWorker.init
AgilentInit(mock, gpib_address, ramp, instrument, opened) ==
    /\ NoWorkerStarted
    /\ synth' = IF mock THEN MockAgilent83650B(gpib_address, ramp)
                ELSE IF opened
                THEN Agilent83650B(gpib_address, ramp, instrument)
                ELSE AgilentNotConnected(gpib_address, ramp, instrument)
    /\ UNCHANGED <<pcoVars, moveVars, codecVars, conn, ell, kdc, limits>>

\* A call of the worker that ends in set_output_settings; synth.call keeps
\* what the call was given and what it found.
AgilentProgram(op, values, fresh, fault) ==
    /\ synth.pc = "constructed"
    /\ synth.programs < MaxPrograms
    /\ synth' = [set_output_settings(
                     [synth EXCEPT !.raised = "none", !.returned = NoValues],
                     values, fresh, fault)
                    EXCEPT !.programs = @ + 1,
                           !.call = [op |-> op, values |-> Some(values),
                                     fresh |-> fresh,
                                     last_set_values |->
                                         synth.last_set_values,
                                     last_actual_values |->
                                         synth.last_actual_values,
                                     written |-> Len(synth.written)]]
    /\ UNCHANGED <<pcoVars, moveVars, codecVars, conn, ell, kdc, limits>>

\* Agilent83650BWorker.program_manual
AgilentProgramManual(values, fault) ==
    AgilentProgram("program_manual", values, TRUE, fault)

\* Agilent83650BWorker.transition_to_buffered with the static_values of
\* the shot file
AgilentTransitionToBuffered(values, fresh, fault) ==
    AgilentProgram("transition_to_buffered", values, fresh, fault)

OutputSettings == [freq : Frequencies, amp : Powers, gate : BOOLEAN]

\* The start-up of the synthesizer worker and its first calls, on a port
\* that works; the calls on a failing port are those of NextProgram.
AgilentStartUp ==
    \/ \E mock \in BOOLEAN, gpib_address \in GpibAddresses,
          ramp \in BOOLEAN, instrument \in 0 .. 1, opened \in BOOLEAN :
          AgilentInit(mock, gpib_address, ramp, instrument, opened)
    \/ \E values \in OutputSettings : AgilentProgramManual(values, NoFault)
    \/ \E values \in OutputSettings, fresh \in BOOLEAN :
          AgilentTransitionToBuffered(values, fresh, NoFault)

NextInit ==
    \/ ElliptecStartUp
    \/ KDC101StartUp
    \/ AgilentStartUp

SpecInit == Init /\ [][NextInit]_vars

(***************************************************************************)
(* Agilent83650BOutput: the limits given in the connection table are       *)
(* coerced when the output is constructed.  Frequencies are in MHz, powers *)
(* in dBm.                                                                 *)
(***************************************************************************)
freq_min == 10
freq_max == 50000
amp_min == -20
amp_max == 10

FrequencySamples == {5, 10, 11, 20000, 50000, 60000, 70000}
PowerSamples == {-30, -20, -19, 0, 10, 20, 30}
\* None, or a (minimum, maximum) pair
LimitInputs(samples) ==
    {None} \cup {pair \in samples \X samples : pair[1] <= pair[2]}

\* _coerce_set_frequency_limits and _coerce_set_power_limits, which differ
\* in the hardware limits only
CoerceLimits(set_limits, hardware_min, hardware_max) ==
    IF set_limits # None
    THEN LET set_min == set_limits[1]
             set_max == set_limits[2]
             final_min == IF set_min > hardware_min THEN set_min
                          ELSE hardware_min
             final_max == IF set_max < hardware_max THEN set_max
                          ELSE hardware_max
         IN  <<final_min, final_max>>
    ELSE <<hardware_min, hardware_max>>

_coerce_set_frequency_limits(frequency_limits) ==
    CoerceLimits(frequency_limits, freq_min, freq_max)
_coerce_set_power_limits(power_limits) ==
    CoerceLimits(power_limits, amp_min, amp_max)

\* Agilent83650BOutput.__init__
Agilent83650BOutput(frequency_limits, power_limits) ==
    /\ limits = IdleLimits
    /\ limits' = [kind |-> "constructed",
                  given |-> [frequency |-> frequency_limits,
                             power |-> power_limits],
                  frequency_limits |->
                      _coerce_set_frequency_limits(frequency_limits),
                  power_limits |-> _coerce_set_power_limits(power_limits)]
    /\ UNCHANGED <<pcoVars, moveVars, codecVars, conn, ell, kdc, synth>>

NextLimits ==
    \E frequency_limits \in LimitInputs(FrequencySamples),
       power_limits \in LimitInputs(PowerSamples) :
          Agilent83650BOutput(frequency_limits, power_limits)

SpecLimits == Init /\ [][NextLimits]_vars

(***************************************************************************)
(* The workers' programming calls.  program_manual and                     *)
(* transition_to_buffered hand every value to the interface, in the order  *)
(* of the dictionary, and then read the positions back; a command that     *)
(* raises ends the call.  A behaviour is the life of one worker after its  *)
(* init.                                                                   *)
(***************************************************************************)
\* The values of a front panel or of a shot file: one position for each of
\* some connections.
ElliptecValues ==
    UNION {{[i \in DOMAIN t |-> [connection |-> t[i], value |-> p[i]]] :
               p \in [DOMAIN t -> Positions]} : t \in ConnectionTables}
KDC101Values == {<<>>} \cup {<<p>> : p \in KDCInputs}

\* The loop of ElliptecWorker.move from the i-th value on; the command of
\* the failing-th value raises if it is sent.
RECURSIVE ElliptecMoves(_, _, _, _, _)
ElliptecMoves(m, values, i, fresh, failing) ==
    IF i > Len(values) \/ m.raised THEN m
    ELSE LET one == move(m.cache, values[i].connection, values[i].value,
                         fresh, IF i = failing THEN "raises" ELSE "ok")
         IN  ElliptecMoves(Moved(m.sent \o one.sent, one.raised, one.cache),
                           values, i + 1, fresh, failing)

\* ElliptecWorker.check_remote_values: get_position for every child
ElliptecWorker_check_remote_values ==
    [i \in 1 .. Cardinality(Addresses) |->
        Message(Ascending(Addresses)[i], "gp", <<>>)]

\* ElliptecWorker.move
ElliptecWorker_move(cache, values, fresh, failing) ==
    LET m == ElliptecMoves(Moved(<<>>, FALSE, cache), values, 1, fresh,
                           failing)
    IN  IF m.raised THEN m
        ELSE Moved(m.sent \o ElliptecWorker_check_remote_values, FALSE,
                   m.cache)

\* Faulty variant of program_manual: smart programming on the front panel.
program_manual_Smart(cache, values, failing) ==
    [fresh |-> FALSE, m |-> ElliptecWorker_move(cache, values, FALSE, failing)]

\* ElliptecWorker.program_manual: the fresh it passes and what move does
program_manual(cache, values, failing) ==
    [fresh |-> TRUE, m |-> ElliptecWorker_move(cache, values, TRUE, failing)]

\* ElliptecWorker.transition_to_buffered with the static_values of the
\* shot file
transition_to_buffered(cache, values, fresh, failing) ==
    [fresh |-> fresh, m |-> ElliptecWorker_move(cache, values, fresh, failing)]

\* The loop of KDC101Worker._move
RECURSIVE KDC101Moves(_, _, _, _, _)
KDC101Moves(m, values, i, fresh, failing) ==
    IF i > Len(values) \/ m.raised THEN m
    ELSE LET one == KDC101_move(m.cache, values[i], fresh,
                                IF i = failing THEN "raises" ELSE "ok")
         IN  KDC101Moves(Moved(m.sent \o one.sent, one.raised, one.cache),
                         values, i + 1, fresh, failing)

\* KDC101Worker._move; check_remote_values reads controller.Position
KDC101Worker__move(cache, values, fresh, failing) ==
    LET m == KDC101Moves(Moved(<<>>, FALSE, cache), values, 1, fresh, failing)
    IN  IF m.raised THEN m
        ELSE Moved(m.sent \o <<Message(0, "Position", <<>>)>>, FALSE, m.cache)

\* KDC101Worker.program_manual
KDC101Worker_program_manual(cache, values, failing) ==
    [fresh |-> TRUE, m |-> KDC101Worker__move(cache, values, TRUE, failing)]

\* KDC101Worker.transition_to_buffered
KDC101Worker_transition_to_buffered(cache, values, fresh, failing) ==
    [fresh |-> fresh, m |-> KDC101Worker__move(cache, values, fresh, failing)]

\* bus after a call of a worker: the call and its values, the fresh it
\* passed on, the commands sent, whether it raised and the cache it found.
Programmed(dev, op, values, r, cached) ==
    [dev |-> dev, op |-> op, values |-> values, fresh |-> r.fresh,
     sent |-> r.m.sent, raised |-> r.m.raised, cached |-> cached]
NotProgrammed(dev) ==
    [dev |-> dev, op |-> "none", values |-> <<>>, fresh |-> TRUE,
     sent |-> <<>>, raised |-> FALSE, cached |-> None]

ElliptecProgrammed(op, values, r) ==
    /\ bus.dev = "elliptec"
    /\ last_set_positions_in_counts' = r.m.cache
    /\ bus' = Programmed("elliptec", op, values, r,
                         last_set_positions_in_counts)
    /\ UNCHANGED <<last_set_position, hist, pcoVars, codecVars, workerVars>>

KDC101Programmed(op, values, r) ==
    /\ bus.dev = "kdc101"
    /\ last_set_position' = r.m.cache
    /\ bus' = Programmed("kdc101", op, values, r, last_set_position)
    /\ UNCHANGED <<last_set_positions_in_counts, hist, pcoVars, codecVars,
                 workerVars>>

ElliptecProgramManual(values, failing) ==
    ElliptecProgrammed("program_manual", values,
        program_manual(last_set_positions_in_counts, values, failing))

ElliptecTransitionToBuffered(values, fresh, failing) ==
    ElliptecProgrammed("transition_to_buffered", values,
        transition_to_buffered(last_set_positions_in_counts, values, fresh,
                               failing))

KDC101ProgramManual(values, failing) ==
    KDC101Programmed("program_manual", values,
        KDC101Worker_program_manual(last_set_position, values, failing))

KDC101TransitionToBuffered(values, fresh, failing) ==
    KDC101Programmed("transition_to_buffered", values,
        KDC101Worker_transition_to_buffered(last_set_position, values, fresh,
                                            failing))

\* After init: empty caches, nothing written yet.
InitPrograms ==
    /\ InitPCO /\ InitCodec
    /\ conn = IdleConn /\ ell = IdleEll /\ kdc = IdleKdc /\ limits = IdleLimits
    /\ last_set_positions_in_counts = [a \in Addresses |-> None]
    /\ last_set_position = None
    /\ hist = [elliptec |-> [a \in Addresses |-> NoCallYet],
               kdc101 |-> NoCallYet]
    /\ \E dev \in {"elliptec", "kdc101", "agilent"} :
          /\ bus = NotProgrammed(dev)
          /\ IF dev = "agilent"
             THEN \E mock \in BOOLEAN, gpib_address \in GpibAddresses,
                     ramp \in BOOLEAN, instrument \in 0 .. 1 :
                     synth = IF mock
                             THEN MockAgilent83650B(gpib_address, ramp)
                             ELSE Agilent83650B(gpib_address, ramp,
                                                instrument)
             ELSE synth = IdleSynth

NextProgram ==
    \/ \E values \in ElliptecValues, failing \in 0 .. Cardinality(Addresses) :
          ElliptecProgramManual(values, failing)
    \/ \E values \in ElliptecValues, fresh \in BOOLEAN,
          failing \in 0 .. Cardinality(Addresses) :
          ElliptecTransitionToBuffered(values, fresh, failing)
    \/ \E values \in KDC101Values, failing \in 0 .. 1 :
          KDC101ProgramManual(values, failing)
    \/ \E values \in KDC101Values, fresh \in BOOLEAN, failing \in 0 .. 1 :
          KDC101TransitionToBuffered(values, fresh, failing)
    \/ \E values \in OutputSettings, fault \in Faults :
          AgilentProgramManual(values, fault)
    \/ \E values \in OutputSettings, fresh \in BOOLEAN, fault \in Faults :
          AgilentTransitionToBuffered(values, fresh, fault)

SpecProgram == InitPrograms /\ [][NextProgram]_vars

(***************************************************************************)
(* PCOCamera._open_camera: cameras are opened one after the other, in the  *)
(* order the SDK hands them out, until one has the target serial number or *)
(* OpenCamera raises; then the cameras that are not wanted are closed.     *)
(* conn holds the search: the attached cameras by serial number, the       *)
(* locals camera_list and serial_number_list (cameras are named by their   *)
(* place in attached), the cameras open at the driver and self.camera.     *)
(***************************************************************************)
MaxCameras == 3         \* cameras attached to the computer
CameraSerials == 1 .. MaxCameras + 1
NoCamera == 0
Attached ==
    {a \in UNION {[1 .. n -> CameraSerials] : n \in 0 .. MaxCameras} :
        \A i, j \in DOMAIN a : i # j => a[i] # a[j]}

\* Entry of _open_camera
Searching(attached, target_serial_number) ==
    [routine |-> "_open_camera", pc |-> "looking_for_camera",
     attached |-> attached, target_serial_number |-> target_serial_number,
     camera_list |-> <<>>, serial_number_list |-> <<>>,
     found_camera |-> FALSE, open |-> {}, camera |-> NoCamera,
     raised |-> "none"]

\* What NicePCO.OpenCamera can do: open the next camera, or raise; the
\* error code 0x800a300d comes when every attached camera is open.
OpenCameraOutcomes(s) ==
    (IF Len(s.camera_list) < Len(s.attached)
     THEN {"opened"} ELSE {"0x800a300d"}) \cup {"other PCOError"}

\* One pass of the while loop
LoopPass(s, o) ==
    IF o = "0x800a300d" THEN [s EXCEPT !.pc = "closing"]
    ELSE IF o = "other PCOError"
    THEN [s EXCEPT !.pc = "raised", !.raised = "PCOError"]
    ELSE LET camera_handle == Len(s.camera_list) + 1
             serial_number == s.attached[camera_handle]
             found == serial_number = s.target_serial_number
         IN  [s EXCEPT !.open = @ \cup {camera_handle},
                       !.camera_list = Append(@, camera_handle),
                       !.serial_number_list = Append(@, serial_number),
                       !.found_camera = found,
                       !.pc = IF found THEN "closing"
                              ELSE "looking_for_camera"]

\* After the loop: self.camera = camera_list.pop(-1) if the camera was
\* found, CloseCamera for the cameras left in camera_list, and the raise.
CloseUndesired(s) ==
    LET rest == IF s.found_camera
                THEN SubSeq(s.camera_list, 1, Len(s.camera_list) - 1)
                ELSE s.camera_list
    IN  [s EXCEPT !.camera = IF s.found_camera
                             THEN s.camera_list[Len(s.camera_list)]
                             ELSE NoCamera,
                  !.camera_list = rest,
                  !.open = @ \ {rest[i] : i \in DOMAIN rest},
                  !.pc = IF s.found_camera THEN "returned" ELSE "raised",
                  !.raised = IF s.found_camera THEN "none"
                             ELSE "ConnectionAbortedError"]

OpenCameraPass(o) ==
    /\ conn.routine = "_open_camera" /\ conn.pc = "looking_for_camera"
    /\ o \in OpenCameraOutcomes(conn)
    /\ conn' = LoopPass(conn, o)
    /\ UNCHANGED <<pcoVars, moveVars, codecVars, ell, kdc, synth, limits>>

CloseUndesiredCameras ==
    /\ conn.routine = "_open_camera" /\ conn.pc = "closing"
    /\ conn' = CloseUndesired(conn)
    /\ UNCHANGED <<pcoVars, moveVars, codecVars, ell, kdc, synth, limits>>

InitSearch ==
    /\ InitPCO /\ InitMove /\ InitCodec
    /\ ell = IdleEll /\ kdc = IdleKdc /\ synth = IdleSynth
    /\ limits = IdleLimits
    /\ \E attached \in Attached, target_serial_number \in CameraSerials :
          conn = Searching(attached, target_serial_number)

NextSearch ==
    \/ \E o \in {"opened", "0x800a300d", "other PCOError"} : OpenCameraPass(o)
    \/ CloseUndesiredCameras

SpecSearch == InitSearch /\ [][NextSearch]_vars

(***************************************************************************)
(* grab_multiple when nothing stops it: no abort is requested and no wait  *)
(* ends in an error other than the timeout.  The acquisition thread keeps  *)
(* running, so each of its steps is taken when it stays possible; the      *)
(* hardware fills a slot when an image comes and owes no further image.    *)
(***************************************************************************)
GmWaitNoFatal == GmWait /\ gm'.last_wait # "fatal"
GmGrabNoFatal == GmGrab /\ gm'.last_wait # "fatal"

NextLive ==
    \/ \E m \in ConfigureModes, n \in BufferCounts :
           ConfigureAcquisition(m[1], n, m[2])
    \/ StopAcquisition
    \/ \E n \in ImageCounts : GrabMultiple(n)
    \/ GmCheck
    \/ GmWaitNoFatal
    \/ GmGrabNoFatal
    \/ HwFill

SpecLive ==
    /\ Init /\ [][NextLive]_vars
    /\ WF_vars(GmCheck) /\ WF_vars(GmWaitNoFatal) /\ WF_vars(GmGrabNoFatal)

(***************************************************************************)
(* Claims about the acquisition pipeline.                                  *)
(***************************************************************************)
Last(q) == q[Len(q)]
GmReturned == pc = "idle" /\ ret.op = "grab_multiple"

\* C1 (as stated): whenever abort_acquisition() was called while
\* grab_multiple was executing, grab_multiple returns without raising, with
\* fewer than n_images frames appended and with _abort_acquisition False.
\* (Calls ended by a device error other than the timeout are left out.)
C1_AbortAtAnyMoment ==
    (GmReturned /\ gm.abort_during /\ ret.raised # "fatal")
        => /\ ret.raised = "none"
           /\ Len(gm.images) < gm.n_images
           /\ ~_abort_acquisition

\* C1 (amended): the flag is tested only at the top of the while loop, i.e.
\* on entry and after every buffer-wait timeout.  When that test finds the
\* flag set, grab_multiple returns at once without raising, keeps the frames
\* already appended and leaves _abort_acquisition False; when it finds the
\* flag clear it goes on to wait.  A return by any other path leaves the
\* flag as it is, so a request made after the last test is still pending
\* when grab_multiple returns.
C1_AbortSeenAtLoopTop ==
    /\ [][GmCheck =>
            IF _abort_acquisition
            THEN /\ pc' = "idle"
                 /\ ret'.op = "grab_multiple" /\ ret'.raised = "none"
                 /\ gm'.images = gm.images
                 /\ ~_abort_acquisition'
            ELSE pc' = "gm_wait" /\ ~_abort_acquisition']_vars
    /\ []((GmReturned /\ gm.observed_abort) => ~_abort_acquisition)
    /\ []((GmReturned /\ gm.abort_during /\ ~gm.observed_abort)
            => _abort_acquisition)

\* C1 witness: an abort requested during the call was seen after a timeout,
\* with a frame already appended.
C1_Witness ==
    /\ GmReturned /\ gm.observed_abort /\ gm.abort_during
    /\ gm.timed_out /\ Len(gm.images) > 0

\* A step in which grab() ran and returned a frame, and that frame.
GrabReturned ==
    \/ Grab /\ ret'.raised = "none"
    \/ GmGrab /\ Len(gm'.images) = Len(gm.images) + 1
GrabbedFrame == IF pc = "idle" THEN ret'.frame ELSE Last(gm'.images)
Calls(f) == {i \in DOMAIN camera'.log : camera'.log[i].f = f}

\* C6: while running continuously, every successful grab() waits on the head
\* of buffer_info_list, produces one frame from that slot and resubmits the
\* same slot at the back of the queue; afterwards bufferCount slots are
\* queued, so the slots are served in round-robin order.
C6_ContinuousGrabRotates ==
    [][(GrabReturned /\ _running_continuously) =>
        /\ buffer_info_list # <<>>
        /\ camera'.log[1] = [f |-> "WaitforBuffer", a |-> Head(buffer_info_list)]
        /\ Calls("WaitforBuffer") = {1}
        /\ GrabbedFrame.slot = Head(buffer_info_list)
        /\ GrabbedFrame.img = camera.img[Head(buffer_info_list)]
        /\ Last(camera'.log) = [f |-> "AddBufferEx", a |-> Head(buffer_info_list)]
        /\ camera'.queue = Append(camera.queue, Head(buffer_info_list))
        /\ buffer_info_list' = Append(Tail(buffer_info_list), Head(buffer_info_list))
        /\ Len(buffer_info_list') = bufferCount]_vars

\* C6 witness: with two slots queued, continuous grabbing has come round to
\* slot 0 for the second time (third image of the recording).
C6_Witness ==
    /\ pc = "idle" /\ ret.op = "grab" /\ ret.raised = "none"
    /\ _running_continuously /\ Len(buffer_info_list) = 2
    /\ ret.frame = [Frame(camera, 0, ROI) EXCEPT !.img = 3]
    /\ buffer_info_list = <<1, 0>>

\* C7: in non-continuous mode a successful grab() resubmits nothing and the
\* queue shrinks by exactly its head; snap() configures one slot, produces
\* exactly one frame and stops recording, so after snap() has returned the
\* recording state is 0 and buffer_info_list is empty.
C7_SingleShotDrains ==
    /\ [][(GrabReturned /\ ~_running_continuously) =>
            /\ buffer_info_list' = Tail(buffer_info_list)
            /\ Calls("AddBufferEx") = {}
            /\ camera'.queue = camera.queue]_vars
    /\ [][(Snap /\ ret'.raised = "none") =>
            /\ Cardinality(Calls("AllocateBuffer")) = 1
            /\ Cardinality(Calls("AddBufferEx")) = 1
            /\ Cardinality(Calls("WaitforBuffer")) = 1
            /\ camera'.allocated = {ret'.frame.slot}
            /\ ret'.frame.img # NoImage
            /\ Last(camera'.log) = [f |-> "SetRecordingState", a |-> 0]
            /\ camera'.recording = 0
            /\ buffer_info_list' = <<>>]_vars
    /\ []((pc = "idle" /\ ret.op = "snap" /\ ret.raised = "none")
            => camera.recording = 0 /\ buffer_info_list = <<>>)

\* C7 witness: snap() has returned the frame of its one slot.
C7_Witness ==
    /\ pc = "idle" /\ ret.op = "snap" /\ ret.raised = "none"
    /\ ret.frame.slot = 0 /\ ret.frame.img = 1
    /\ camera.recording = 0 /\ buffer_info_list = <<>>

\* C8: configure_acquisition(bufferCount=N) first stops recording and tears
\* down all existing slots, sets the recording state to 1 before the first
\* AllocateBuffer call, and on return exactly N slots are allocated, all N
\* are submitted to the hardware and listed in buffer_info_list in
\* allocation order.
C8_ConfigureOrder ==
    [][\A m \in ConfigureModes, n \in BufferCounts :
        ConfigureAcquisition(m[1], n, m[2]) =>
        LET log == camera'.log
            run == CHOOSE i \in DOMAIN log :
                       log[i] = [f |-> "SetRecordingState", a |-> 1]
            allocs == Calls("AllocateBuffer")
        IN  /\ Cardinality({i \in DOMAIN log :
                    log[i] = [f |-> "SetRecordingState", a |-> 1]}) = 1
            \* recording is stopped first, if it was on
            /\ log[1].f = "GetRecordingState"
            /\ camera.recording # 0 => log[2] = [f |-> "SetRecordingState", a |-> 0]
            \* then the teardown, all of it before recording is switched on
            /\ \A i \in Calls("CancelImages") \cup Calls("FreeBuffer") :
                   i < run /\ (camera.recording # 0 => i > 2)
            /\ Calls("CancelImages") # {}
            /\ \A b \in camera.allocated : \E i \in Calls("FreeBuffer") :
                   log[i].a = b
            \* recording is on before the first allocation
            /\ \A i \in allocs : run < i
            \* N slots allocated, submitted and listed in allocation order
            /\ Cardinality(allocs) = n
            /\ Cardinality(camera'.allocated) = n
            /\ Len(buffer_info_list') = n
            /\ \A j \in 1 .. n :
                   Cardinality({i \in allocs : log[i].a < buffer_info_list'[j]})
                       = j - 1
            /\ \A j \in 1 .. n : \E i \in allocs : log[i].a = buffer_info_list'[j]
            /\ {buffer_info_list'[j] : j \in 1 .. n} = camera'.allocated
            /\ camera'.queue = buffer_info_list'
            /\ camera'.recording = 1]_vars

\* C8 witness: a two-slot acquisition configured over a running one.
C8_Witness ==
    /\ ret.op = "configure_acquisition" /\ bufferCount = 2
    /\ buffer_info_list = <<0, 1>> /\ camera.recording = 1
    /\ \E i \in DOMAIN camera.log :
           camera.log[i] = [f |-> "SetRecordingState", a |-> 0]

\* A step of grab_multiple in which a buffer wait ended, with outcome
\* gm'.last_wait (the wait before the for loop, or the one inside grab()).
GmWaited == GmWait \/ (GmGrab /\ ret'.raised # "IndexError")

\* C10: in grab_multiple a buffer wait that fails with the timeout code
\* never propagates: the call goes back to the abort test, and from there,
\* unless an abort is seen, to another wait.  A failure with any other
\* error code is raised to the caller at once, with no further wait.
C10_TimeoutRetriesFatalRaises ==
    /\ [][(GmWaited /\ gm'.last_wait = "timeout") =>
            pc' = "gm_check" /\ ret'.raised = "none"]_vars
    /\ [][(GmCheck /\ ~_abort_acquisition) => pc' = "gm_wait"]_vars
    /\ [][GmWait => Calls("WaitforBuffer") # {}]_vars
    /\ [][(GmWaited /\ gm'.last_wait = "fatal") =>
            /\ pc' = "idle" /\ ret'.op = "grab_multiple" /\ ret'.raised = "fatal"
            /\ Cardinality(Calls("WaitforBuffer")) = 1
            /\ buffer_info_list' = buffer_info_list]_vars
    /\ [](ret.op = "grab_multiple" => ret.raised # "timeout")

\* C10 witness: a call that went round the loop on a timeout and was later
\* ended by another device error.
C10_Witness ==
    /\ GmReturned /\ ret.raised = "fatal"
    /\ gm.timed_out /\ gm.last_wait = "fatal" /\ Len(gm.images) > 0

(***************************************************************************)
(* Claims about the software ROI.                                          *)
(***************************************************************************)
RoiFits(roi, sizes) ==
    roi.offsetX + roi.width <= sizes[1] /\ roi.offsetY + roi.height <= sizes[2]

\* C4 (as stated): whenever a frame is produced, the stored software ROI
\* fits inside the image geometry in effect at that moment, whatever
\* set_attribute / set_attributes calls came before.
C4_RoiFitsWhenFrameProduced ==
    ret.frame # NoFrame => RoiFits(ret.frame.roi, ret.frame.sizes)

\* C5: set_ROI raises ValueError for every ROI whose offsetX+width exceeds
\* the current image width or whose offsetY+height exceeds the current
\* image height (the size the current settings give), and it accepts and
\* stores the full-frame ROI.
C5_SetROIBounds ==
    (ret.op = "set_ROI" /\ ~RoiMalformed(ret.arg)) =>
        LET now == SizesFor(camera.binning)
        IN  /\ (ret.arg.offsetX + ret.arg.width > now[1]
                    \/ ret.arg.offsetY + ret.arg.height > now[2])
                  => ret.raised = "ValueError"
            /\ ret.arg = FullFrame(now) => ret.raised = "none" /\ ROI = ret.arg

\* C5 witness: with 2x horizontal binning set after the last ArmCamera(), a
\* ROI that fits the unbinned sensor has been rejected for its width.
C5_Witness ==
    /\ ret.op = "set_ROI" /\ ret.raised = "ValueError" /\ ret.text = "width"
    /\ camera.binning = <<2, 1>> /\ camera.log[1].f = "ArmCamera"
    /\ ret.arg = FullFrame(SizesFor(<<1, 1>>))

MoveCalled == bus.call.op = "move"
SameAsPrevious ==
    MoveCalled /\ ~bus.fresh /\ bus.prev.op = "move"
               /\ bus.prev.pos = bus.call.pos

\* C2 (as stated): when the same position is commanded twice in succession
\* for one axis and the second call has fresh=False, the two calls send one
\* hardware move command in total; a call whose position differs from the
\* position commanded by the call before it sends a hardware move command.
C2_SameTwiceOneCommand ==
    /\ (SameAsPrevious /\ bus.prev.writes = 1) => bus.call.writes = 0
    /\ (MoveCalled /\ bus.prev.op = "move" /\ bus.prev.pos # bus.call.pos)
          => bus.call.writes = 1

\* C2 (amended): when move(p) has returned without raising and the next
\* call for that axis is move(p, fresh=False), the second call sends
\* nothing and does not raise; a move sends exactly one move command when
\* fresh is True or its position differs from the cached one and sends
\* nothing otherwise; the cached position is None before the first call
\* (and, for the Elliptec, after home or move_relative) and is the position
\* of the previous call when that was a move that returned.
C2_SmartProgramming ==
    /\ (SameAsPrevious /\ ~bus.prev.raised)
          => bus.call.writes = 0 /\ ~bus.call.raised
    /\ MoveCalled =>
          /\ (bus.fresh \/ bus.call.pos # bus.cached)
                => /\ bus.call.writes = 1
                   /\ bus.sent[1].command \in {"ma", "MoveTo"}
                   /\ bus.sent[1].address = bus.address
          /\ (~bus.fresh /\ bus.call.pos = bus.cached) => bus.call.writes = 0
    /\ (bus.prev.op = "move" /\ ~bus.prev.raised) => bus.cached = bus.prev.pos
    /\ bus.prev.op = "none" => bus.cached = None
    /\ (bus.dev = "elliptec" /\ bus.prev.op \in {"home", "move_relative"})
          => bus.cached = None

\* C2 witness: a repeated position has been elided at one Elliptec address
\* while the other address holds a different commanded position.
C2_Witness ==
    /\ bus.dev = "elliptec" /\ SameAsPrevious /\ ~bus.prev.raised
    /\ bus.prev.writes = 1 /\ bus.call.writes = 0
    /\ \E a \in Addresses :
          /\ a # bus.address
          /\ last_set_positions_in_counts[a] # None
          /\ last_set_positions_in_counts[a] # bus.call.pos

(***************************************************************************)
(* Claims about the position codec.                                        *)
(***************************************************************************)
\* The 8 hexadecimal digits of the 32-bit two's complement pattern of x.
TwosComplementHex(x) ==
    PadLeft(HexOf(x.hi % Limb), 4) \o PadLeft(HexOf(x.lo), 4)

RoundTrips ==
    /\ codec.back = codec.x
    /\ codec.str = TwosComplementHex(codec.x)

\* C3 (as stated): for every integer x from -2^31 through 2^31, decoding
\* the encoding of x gives x, and the encoding is the 8-digit upper-case
\* hexadecimal two's complement representation of x.
C3_RoundTripThroughBoundary == codec.stage = "decoded" => RoundTrips

\* C3 (amended): for every integer x with -2^31 <= x <= 2^31 - 1, decoding
\* the encoding of x gives x, and the encoding is the 8-digit upper-case
\* hexadecimal two's complement representation of x; 2^31 is encoded as
\* "80000000" and decodes to -2^31.
C3_RoundTripSigned32 ==
    codec.stage = "decoded" =>
        /\ (~Less(codec.x, Neg(TwoToThe(31))) /\ Less(codec.x, TwoToThe(31)))
              => RoundTrips
        /\ codec.x = TwoToThe(31)
              => /\ codec.str = <<"8", "0", "0", "0", "0", "0", "0", "0">>
                 /\ codec.back = Neg(TwoToThe(31))

\* C3 witness: -2^31, the most negative value, has made the round trip.
C3_Witness ==
    /\ codec.stage = "decoded" /\ codec.x = Neg(TwoToThe(31))
    /\ codec.back = codec.x /\ codec.str[1] = "8"

(***************************************************************************)
(* Claims about the frames grab_multiple appends.                          *)
(***************************************************************************)
\* The frames were appended oldest first: their image numbers increase.
OldestFirst(images) ==
    \A i, j \in DOMAIN images : i < j => images[i].img < images[j].img

\* C11: whenever grab_multiple(n_images, images) returns without having
\* seen an abort and without raising, exactly n_images frames have been
\* appended during the call, oldest first, whatever buffer waits timed out.
C11_ExactlyNImages ==
    (GmReturned /\ ret.raised = "none" /\ ~gm.observed_abort)
        => Len(gm.images) = gm.n_images /\ OldestFirst(gm.images)

\* C11 witness: a call that timed out has returned more frames than asked.
C11_Witness ==
    /\ GmReturned /\ ret.raised = "none" /\ ~gm.observed_abort
    /\ gm.timed_out /\ Len(gm.images) > gm.n_images

(***************************************************************************)
(* Claims about opening a connection.                                      *)
(***************************************************************************)
\* C12: each connection-open routine makes at most 10 connection attempts;
\* it stops at the first successful attempt without raising; when all 10
\* attempts fail with the transport's connection error it raises the error
\* of the last attempt; a routine still running has made fewer than 10
\* attempts and every pass makes one more, so the routine terminates.
C12_OpenRetries ==
    /\ [](conn.routine # "none" =>
            /\ conn.attempts <= max_attempts
            /\ conn.pc = "running" => conn.attempts < max_attempts
            /\ conn.pc = "connected" =>
                  /\ conn.raised = NoError
                  /\ conn.attempts = conn.n_connection_attempt
                  /\ conn.sleeps = conn.attempts - 1
            /\ (conn.pc = "raised" /\ conn.raised.kind \in ConnectionErrorKinds)
                  => /\ conn.attempts = max_attempts
                     /\ conn.raised.attempt = max_attempts)
    /\ [][(conn.routine # "none" /\ conn'.routine = conn.routine)
            => /\ conn.pc = "running"
               /\ conn'.attempts = conn.attempts + 1]_vars

\* C12 witness: open_resource has given up after ten failed attempts, the
\* last of a different kind than the one before.
C12_Witness ==
    /\ conn.routine = "open_resource" /\ conn.pc = "raised"
    /\ conn.attempts = max_attempts
    /\ conn.raised = Error("busy", max_attempts)

(***************************************************************************)
(* Claims about worker start-up.                                           *)
(***************************************************************************)
\* The positions in the log of the calls of a method for an address.
CallsOf(method, address) ==
    {k \in DOMAIN ell.log : ell.log[k] = ControllerCall(method, address)}
Homed == {a \in Addresses : CallsOf("home", a) # {}}
SerialMatches(a) ==
    ell.connection_serial_numbers[a] = get_serial_number(ell, a)

\* C13: ElliptecWorker.init asks every device of connection_serial_numbers
\* for its serial number and finds it equal to the connection table before
\* the first home command is sent; when a serial number differs ValueError
\* is raised and no device has been homed; when all match and init returns,
\* the devices homed are exactly those with home_on_startup set, each once.
C13_SerialsBeforeHoming ==
    ell.pc # "none" =>
        /\ \A a \in Addresses : \A k \in CallsOf("home", a) :
              /\ a \in Connected(ell.connections) /\ ell.homing_settings[a]
              /\ CallsOf("home", a) = {k}
              /\ \A c \in Connected(ell.connections) :
                    /\ \E j \in CallsOf("get_serial_number", c) : j < k
                    /\ SerialMatches(c)
        /\ ell.raised = "ValueError" =>
              /\ Homed = {}
              /\ \E c \in Connected(ell.connections) : ~SerialMatches(c)
        /\ ell.pc \in {"do_homing", "returned"} =>
              \A c \in Connected(ell.connections) : SerialMatches(c)
        /\ ell.pc = "returned" =>
              Homed = {c \in Connected(ell.connections) : ell.homing_settings[c]}

\* init returned on a real board of two devices, of which one was homed.
C13_Witness ==
    /\ ell.pc = "returned" /\ ~ell.mock
    /\ Len(ell.connections) = 2
    /\ Cardinality(Homed) = 1
    /\ Len(ell.log) = 3

\* C14: KDC101Worker.init sends no home command to a device that is already
\* homed; homes a device that is not homed when allow_homing is true; and
\* when the device is not homed and allow_homing is false it sends no home
\* command, closes the connection and raises RuntimeError.  So init returns
\* only with a homed device and nothing is homed when allow_homing is false.
C14_HomingAllowed ==
    LET home_calls == {i \in DOMAIN kdc.log : kdc.log[i] = "Home"}
    IN  kdc.pc # "none" /\ kdc.raised # "DeviceNotReadyException" =>
          /\ kdc.was_homed => home_calls = {} /\ kdc.pc = "returned"
          /\ ~kdc.was_homed /\ kdc.allow_homing => Cardinality(home_calls) = 1
          /\ ~kdc.was_homed /\ ~kdc.allow_homing =>
                /\ home_calls = {}
                /\ ~kdc.connected
                /\ kdc.log = <<"StopPolling", "Disconnect">>
                /\ kdc.raised = "RuntimeError"
          /\ kdc.pc = "returned" => kdc.is_homed /\ kdc.connected
          /\ ~kdc.allow_homing => home_calls = {}

\* init refused to home a real device that was not homed.
C14_Witness ==
    /\ kdc.pc = "raised" /\ kdc.raised = "RuntimeError"
    /\ ~kdc.mock /\ ~kdc.allow_homing /\ ~kdc.was_homed /\ ~kdc.connected

(***************************************************************************)
(* Claims about the cache after homing and relative moves.                 *)
(***************************************************************************)
ClearingCall ==
    bus.dev = "elliptec" /\ bus.call.op \in {"home", "move_relative"}

\* C15: when _ElliptecInterface.home(address) or move_relative(address, d)
\* has run, the cached position of that address is None and the cached
\* positions of all other addresses are what they were; the next
\* move(address, p, fresh=False) of that address sends one move command
\* whatever p is, also when p is the position that was cached before.
C15_HomeClearsCache ==
    /\ [](ClearingCall => last_set_positions_in_counts[bus.address] = None)
    /\ []((bus.dev = "elliptec" /\ MoveCalled
              /\ bus.prev.op \in {"home", "move_relative"})
            => /\ bus.call.writes = 1
               /\ bus.sent[1].command = "ma"
               /\ bus.sent[1].address = bus.address)
    /\ [][(ClearingCall /\ bus'.call.op = "move" /\ ~bus'.fresh
              /\ bus'.address = bus.address /\ bus'.call.pos = bus.cached)
            => bus'.call.writes = 1]_vars
    /\ [][(bus'.dev = "elliptec"
              /\ bus'.call.op \in {"home", "move_relative"})
            => \A a \in Addresses \ {bus'.address} :
                  last_set_positions_in_counts'[a]
                     = last_set_positions_in_counts[a]]_vars

\* home has cleared a cached position while the other address keeps one.
C15_Witness ==
    /\ ClearingCall /\ bus.call.op = "home"
    /\ bus.cached # None
    /\ last_set_positions_in_counts[bus.address] = None
    /\ \E a \in Addresses \ {bus.address} :
          last_set_positions_in_counts[a] # None

(***************************************************************************)
(* Claims about the synthesizer.                                           *)
(***************************************************************************)
Within(pair, hardware_min, hardware_max) ==
    \A i \in {1, 2} : hardware_min <= pair[i] /\ pair[i] <= hardware_max

\* C16: for every (min, max) pair given as frequency_limits or power_limits
\* both resulting limits lie within the hardware range (10 MHz .. 50 GHz,
\* -20 dBm .. 10 dBm), and without limits the result is the hardware range.
C16_LimitsWithinHardwareRange ==
    limits.kind = "constructed" =>
        /\ Within(limits.frequency_limits, freq_min, freq_max)
        /\ Within(limits.power_limits, amp_min, amp_max)
        /\ limits.given.frequency = None =>
              limits.frequency_limits = <<freq_min, freq_max>>
        /\ limits.given.power = None =>
              limits.power_limits = <<amp_min, amp_max>>

\* A minimum above the hardware maximum is kept as it is.
C16_Witness ==
    /\ limits.kind = "constructed"
    /\ limits.given.frequency = <<60000, 70000>>
    /\ limits.frequency_limits = <<60000, freq_max>>

Scpi == {":FREQuency:CW", ":FREQuency:CW?", ":POWer:LEVel", ":POWer:LEVel?",
         ":POWer:STATe", ":POWer:STATe?"}

\* C17: once a _Agilent83650B interface is constructed, the first commands
\* written are '++mode 1', '++auto 0', '++addr <gpib_address>', '++eos 2'
\* and '++eoi 1', in that order, and every SCPI command comes after them.
C17_ConfiguredBeforeScpi ==
    synth.pc = "constructed" /\ ~synth.mock =>
        /\ Len(synth.written) >= 5
        /\ SubSeq(synth.written, 1, 5)
              = _configure_gpib_interface(synth.gpib_address)

\* A frequency command is the first thing ever written to the converter.
C17_Witness ==
    /\ synth.pc = "constructed" /\ synth.written # <<>>
    /\ synth.written[1].text = ":FREQuency:CW"
    /\ \A i \in DOMAIN synth.written : synth.written[i].text # "++mode"

(***************************************************************************)
(* Claims about the frames and the settings they are cut with.             *)
(***************************************************************************)
\* The frame f has height x width of its ROI and shows, at row r and column
\* k (from 0), the raw sample at row offsetY + (flipud ? height-1-r : r) and
\* column offsetX + (fliplr ? width-1-k : k).
CropThenFlips(f) ==
    LET height == f.roi.height
        width == f.roi.width
    IN  /\ Len(f.array) = height
        /\ \A r \in 0 .. height - 1 :
              /\ Len(f.array[r + 1]) = width
              /\ \A k \in 0 .. width - 1 :
                    f.array[r + 1][k + 1] =
                        Pixel(f.img,
                              f.roi.offsetX
                                  + (IF f.fliplr THEN width - 1 - k ELSE k),
                              f.roi.offsetY
                                  + (IF f.flipud THEN height - 1 - r ELSE r))

\* C18: every frame the pipeline produces is the raw image of the slot
\* cropped to the ROI, then mirrored left-right if fliplr is set, then
\* mirrored up-down if flipud is set: it has the shape (height, width) of
\* the ROI and each of its samples is the raw sample the ROI and the flips
\* point at.
C18_FrameIsCropThenFlips == ret.frame # NoFrame => CropThenFlips(ret.frame)

\* snap() has returned a frame that is narrower than its ROI.
C18_Witness ==
    /\ ret.op = "snap" /\ ret.frame # NoFrame
    /\ ret.frame.roi.width > ret.frame.sizes[1]
    /\ Len(ret.frame.array) > 0
    /\ Len(ret.frame.array[1]) < ret.frame.roi.width

\* The frames a caller holds: the one the last handler returned and the
\* ones grab_multiple has appended to images.
HeldFrames ==
    (IF ret.frame # NoFrame THEN {ret.frame} ELSE {})
    \cup {gm.images[i] : i \in DOMAIN gm.images}

\* C19: a frame returned by grab() has memory of its own, made from the
\* slot before the slot is submitted again; whatever the hardware writes
\* into the slot afterwards and whether or not the slot is freed, the frame
\* reads as the image the slot held when it was read out.
C19_FrameIsACopy ==
    \A f \in HeldFrames :
        /\ f.base = NoSlot
        /\ Contents(f, camera)
              = Processed(Raw(f.img, f.sizes), f.roi, f.fliplr, f.flipud)

\* In continuous mode the slot of the frame grab() returned has been filled
\* with a later image.
C19_Witness ==
    /\ ret.op = "grab" /\ ret.frame # NoFrame
    /\ _running_continuously
    /\ ret.frame.slot \in camera.filled
    /\ camera.img[ret.frame.slot] > ret.frame.img

SettingRejected ==
    ret.op \in {"set_ROI", "set_fliplr", "set_flipud"} /\ ret.raised # "none"

GrabFailed ==
    /\ ret'.op = "grab" /\ ret'.raised \in {"timeout", "fatal"}
    /\ ret' # ret \/ camera'.log # camera.log

\* C22: when the wait inside grab() fails, by timeout or by another device
\* error, buffer_info_list is what it was before the call: the head is
\* still the slot that was waited on, nothing was submitted again and no
\* frame is returned, so the next grab() waits on the same slot.
C22_FailedGrabKeepsList ==
    [][GrabFailed =>
          /\ buffer_info_list' = buffer_info_list
          /\ camera'.queue = camera.queue
          /\ ret'.frame = NoFrame
          /\ camera'.log = <<[f |-> "WaitforBuffer", a |-> buffer_info_list[1]]>>
      ]_vars

\* grab() has timed out with two slots listed.
C22_Witness ==
    /\ ret.op = "grab" /\ ret.raised = "timeout"
    /\ Len(buffer_info_list) = 2
    /\ camera.log = <<[f |-> "WaitforBuffer", a |-> buffer_info_list[1]]>>

(***************************************************************************)
(* Claims about the workers' programming calls.                            *)
(***************************************************************************)
\* The commands of a sequence that set something: a move of an axis or a
\* setting of the synthesizer.
Writes(sent) ==
    SelectSeq(sent, LAMBDA c : c.command \in {"ma", "MoveTo"})
SynthWrites(written) ==
    SelectSeq(written, LAMBDA c :
        c.text \in {":FREQuency:CW", ":POWer:LEVel", ":POWer:STATe"})

\* The write each value asks for, in the order of the values.
ExpectedWrites ==
    IF bus.dev = "elliptec"
    THEN [i \in DOMAIN bus.values |->
             Message(bus.values[i].connection, "ma",
                 _position_counts_to_str(PyInt(bus.values[i].value)))]
    ELSE [i \in DOMAIN bus.values |->
             Message(0, "MoveTo", float(bus.values[i]))]
ExpectedSynthWrites ==
    LET values == synth.call.values[1]
    IN  <<Command(":FREQuency:CW", values.freq),
          Command(":POWer:LEVel", values.amp),
          Command(":POWer:STATe", IF values.gate THEN 1 ELSE 0)>>

\* The commands the last call of the synthesizer worker wrote.
WrittenByCall ==
    SubSeq(synth.written, synth.call.written + 1, Len(synth.written))

IsPrefix(s, t) == Len(s) <= Len(t) /\ s = SubSeq(t, 1, Len(s))

\* The i-th value of the call: whether no command was sent for it, the
\* cache entry the call found for it, and the entry it asks for.
LeftOut(i) ==
    \A k \in DOMAIN bus.sent : bus.sent[k] # ExpectedWrites[i]
CachedFor(i) ==
    IF bus.dev = "elliptec" THEN bus.cached[bus.values[i].connection]
    ELSE bus.cached
ValueOf(i) ==
    IF bus.dev = "elliptec" THEN Some(bus.values[i].value)
    ELSE Some(float(bus.values[i]))

\* One write for every value when the call returned; when a command raised,
\* the writes of the values up to the one that raised.
WroteEveryValue(writes, expected, raised) ==
    IF raised THEN IsPrefix(writes, expected) ELSE writes = expected

\* C23: program_manual of the Elliptec, KDC101 and synthesizer workers always
\* passes fresh=True and writes every value to the hardware, in order, whether
\* or not the value equals the cached one (a command that raises ends the
\* call there); a write is left out only by transition_to_buffered with
\* fresh=False, and only for a value equal to the cached one.
C23_ProgramManualIsFresh ==
    /\ bus.op = "program_manual" =>
          /\ bus.fresh
          /\ WroteEveryValue(Writes(bus.sent), ExpectedWrites, bus.raised)
    /\ bus.op = "transition_to_buffered" =>
          /\ bus.fresh =>
                WroteEveryValue(Writes(bus.sent), ExpectedWrites, bus.raised)
          /\ ~bus.raised =>
                \A i \in DOMAIN bus.values :
                    LeftOut(i) => ~bus.fresh /\ CachedFor(i) = ValueOf(i)
    /\ synth.pc = "constructed" /\ synth.call.op = "program_manual" =>
          /\ synth.call.fresh
          /\ WroteEveryValue(SynthWrites(WrittenByCall), ExpectedSynthWrites,
                             synth.raised # "none")
    /\ synth.pc = "constructed"
       /\ synth.call.op = "transition_to_buffered" /\ synth.call.fresh =>
          WroteEveryValue(SynthWrites(WrittenByCall), ExpectedSynthWrites,
                          synth.raised # "none")

\* program_manual was given a value equal to the cached one and wrote it.
C23_Witness ==
    /\ bus.dev = "elliptec" /\ bus.op = "program_manual" /\ ~bus.raised
    /\ Len(bus.values) = Cardinality(Addresses)
    /\ \A i \in DOMAIN bus.values :
          bus.cached[bus.values[i].connection] = Some(bus.values[i].value)
    /\ Writes(bus.sent) = ExpectedWrites

(***************************************************************************)
(* Claims about smart programming of the synthesizer.                      *)
(***************************************************************************)
\* The settings of the synthesizer: the key of the value in the worker's
\* dictionary, the SCPI text and the number written for it.
Settings ==
    {[name |-> "frequency", key |-> "freq", text |-> ":FREQuency:CW"],
     [name |-> "power", key |-> "amp", text |-> ":POWer:LEVel"],
     [name |-> "output_enabled", key |-> "gate", text |-> ":POWer:STATe"]}
Asked(g) == synth.call.values[1][g.key]
Written(g) ==
    IF g.name = "output_enabled" THEN (IF Asked(g) THEN 1 ELSE 0)
    ELSE Asked(g)

\* The commands of the last call that are about one setting.
About(g) ==
    SelectSeq(WrittenByCall, LAMBDA c : c.text \in {g.text, g.text \o "?"})

\* smart_set_* of this setting returned in the last call / was called with
\* fresh=False and the value set last.
SmartSetReturned(g) ==
    /\ synth.pc = "constructed" /\ synth.call.op # "none"
    /\ synth.returned[g.name] # None
SameAsLastSet(g) ==
    ~synth.call.fresh /\ Some(Asked(g)) = synth.call.last_set_values[g.name]

\* C24: a smart_set_* call with fresh=False and the last set value sends
\* nothing and returns the value read back after the most recent write of
\* that setting; any other call writes the value, reads it back and returns
\* what was read.
C24_SmartSetReturnsReadBack ==
    \A g \in Settings :
        SmartSetReturned(g) =>
            IF SameAsLastSet(g)
            THEN /\ About(g) = <<>>
                 /\ synth.read_back[g.name].read
                 /\ synth.returned[g.name]
                       = Some(synth.read_back[g.name].value)
            ELSE /\ About(g) = <<Command(g.text, Written(g)),
                                 Command(g.text \o "?", 0)>>
                 /\ synth.returned[g.name]
                       = Some(Some(Answer(synth, g.name, Asked(g))))

\* A smart_set_frequency call that sent nothing has returned a value.
C24_Witness ==
    LET g == [name |-> "frequency", key |-> "freq", text |-> ":FREQuency:CW"]
    IN  /\ SmartSetReturned(g) /\ SameAsLastSet(g)
        /\ About(g) = <<>>
        /\ synth.read_back.frequency.read
        /\ synth.returned.frequency = Some(Some(Asked(g) + 1))

(***************************************************************************)
(* Claims about the search for the camera.                                 *)
(***************************************************************************)
SearchEnded ==
    conn.routine = "_open_camera" /\ conn.pc \in {"returned", "raised"}

\* The cameras opened during the search that are not the target.
OpenedOthers ==
    {c \in DOMAIN conn.serial_number_list :
        conn.serial_number_list[c] # conn.target_serial_number}

\* C25: _open_camera ends either by returning with self.camera bound to
\* the camera that has the target serial number, or by raising
\* ConnectionAbortedError after the SDK has reported that no more cameras
\* can be opened; in both cases every camera it opened that is not the
\* target has been closed.
C25_TargetBoundOthersClosed ==
    SearchEnded =>
        /\ \/ /\ conn.pc = "returned" /\ conn.camera # NoCamera
              /\ conn.attached[conn.camera] = conn.target_serial_number
           \/ /\ conn.raised = "ConnectionAbortedError"
              /\ Len(conn.serial_number_list) = Len(conn.attached)
        /\ OpenedOthers \cap conn.open = {}

\* The search ended after it had opened cameras that are not the target.
C25_Witness ==
    /\ SearchEnded /\ conn.raised # "PCOError"
    /\ OpenedOthers # {} /\ OpenedOthers \cap conn.open = {}

(***************************************************************************)
(* Claims about the list of queued slots.                                  *)
(***************************************************************************)
NoSlotTwice(list) ==
    \A i, j \in DOMAIN list : i # j => list[i] # list[j]

OldestFilled ==
    /\ pc \in {"gm_check", "gm_wait"} /\ gm.images = <<>>
    /\ gm.n_images <= Len(buffer_info_list)
    /\ \A i \in 1 .. gm.n_images : buffer_info_list[i] \in camera.filled

\* C27 as stated: with the acquisition thread scheduled fairly, no abort
\* request and no fatal device error, a grab_multiple(n_images, images)
\* call returns once the hardware has filled the n_images oldest queued
\* slots, however many slots are queued.
C27_ReturnsOnceOldestFilled == OldestFilled ~> pc = "idle"

\* grab_multiple has read no slot yet, the acquisition is not continuous
\* and the hardware has filled the newest of the queued slots.
NewestFilled ==
    /\ pc \in {"gm_check", "gm_wait"} /\ gm.images = <<>>
    /\ ~_running_continuously
    /\ buffer_info_list # <<>>
    /\ buffer_info_list[Len(buffer_info_list)] \in camera.filled

\* C27: with the acquisition thread scheduled fairly, no abort request and
\* no fatal device error, a grab_multiple call of an acquisition that is
\* not continuous ends (it returns, or raises IndexError when fewer than
\* n_images slots were queued) once the hardware has filled the newest
\* queued slot, that is every slot queued at the call.
C27_ReturnsOnceNewestFilled == NewestFilled ~> pc = "idle"

\* A call that timed out while it waited for the newest slot has returned
\* with its n_images frames.
C27_Witness ==
    /\ pc = "idle" /\ ret.op = "grab_multiple" /\ ret.raised = "none"
    /\ ~_running_continuously /\ gm.timed_out
    /\ Len(gm.images) = gm.n_images

(***************************************************************************)
(* Claims about a move command that raises.                                *)
(***************************************************************************)
\* The cache entry of the axis called last, as the call has left it.
CacheEntry ==
    IF bus.dev = "elliptec" THEN last_set_positions_in_counts[bus.address]
    ELSE last_set_position

\* C28: move of the Elliptec and of the KDC101 interface stores the
\* position in the cache only when the hardware move command has completed
\* without raising; when the command raises, the cache entry keeps the value
\* the call found, and a following move to the same position with
\* fresh=False sends the hardware command again.
C28_FailedMoveIsRepeated ==
    /\ (MoveCalled /\ bus.call.raised) => CacheEntry = bus.cached
    /\ (MoveCalled /\ ~bus.call.raised) =>
          CacheEntry = IF bus.call.writes = 1 THEN bus.call.pos
                       ELSE bus.cached
    /\ (SameAsPrevious /\ bus.prev.raised) => bus.call.writes = 1

\* C28 (as the code has it): move of the Elliptec and of the KDC101
\* interface stores the position in the cache only when the hardware move
\* command has completed without raising; when the command raises, the
\* cache entry keeps the value the call found.  A following move to the same
\* position with fresh=False sends the command again when the entry it
\* finds differs from that position, which is so unless the entry held the
\* position already before the call that raised.
C28_FailedMoveKeepsCache ==
    /\ (MoveCalled /\ bus.call.raised) => CacheEntry = bus.cached
    /\ (MoveCalled /\ ~bus.call.raised) =>
          CacheEntry = IF bus.call.writes = 1 THEN bus.call.pos
                       ELSE bus.cached
    /\ (SameAsPrevious /\ bus.prev.raised) =>
          bus.call.writes = IF bus.cached = bus.call.pos THEN 0 ELSE 1

\* A move that raised has been repeated with fresh=False and its command
\* was sent again.
C28_Witness ==
    /\ SameAsPrevious /\ bus.prev.raised /\ bus.prev.writes = 1
    /\ bus.call.writes = 1 /\ ~bus.call.raised
    /\ CacheEntry = bus.call.pos

====
